---- MODULE Spec2Model ----
(***************************************************************************)
(* The DnatMarketplace ledger contract (asset registry, pricing, payments  *)
(* and access rights) as a state machine.  Contract storage, the ether     *)
(* balances of the accounts and of the contract, and the position of the   *)
(* one transaction in progress are the state; every external function is   *)
(* an action.  A purchaseAccess transaction is split at its external calls *)
(* (the payments and the refund), where the recipient runs arbitrary code: *)
(* it may call back into the contract, return, or revert.                  *)
(***************************************************************************)
EXTENDS Integers, Sequences, FiniteSets, TLC

\* ------------------------------------------------------------------------
\* Bounds of the model
\* ------------------------------------------------------------------------
MaxAssets == 3
MaxListed == 2
MaxPrice == 2
MaxUint == 7
InitBalance == 4
MaxNested == 1

\* Math.min(100, maxId) in findAssetIdByHash
SearchLimit == 100

\* The client's clock runs from 0 to MaxTime.
MaxTime == 2

\* The execution requests the orchestrator receives.
MaxRuns == 2

\* The times the Register button starts an upload.
MaxSubmits == 2

\* ------------------------------------------------------------------------
\* Input domains
\* ------------------------------------------------------------------------
Accounts == {"alice", "bob", "carol"}
ZeroAddress == "0x0"
Ledger == "DnatMarketplace"

AssetTypes == {"Dataset", "Application"}
EmptyString == << >>
Uris == {<<"a">>, <<"a", "a">>}
ManifestUris == {<<"m">>}
ContentHashes == {"h"}
BloomFilters == {EmptyString}
\* <<msg.sender, assetType, encryptedUri>> of the registrations explored.
Registrations ==
    {<<"alice", "Dataset", <<"a">> >>, <<"bob", "Application", <<"a">> >>,
     <<"carol", "Dataset", <<"a", "a">> >>, <<"alice", "Application", <<"a", "a">> >>}
Buyers == {"carol"}
ListPrices == 1..MaxPrice
NewPrices == {0, MaxUint}
NestedPrices == {1}
NestedValues == {0}
AssetIds == 0..MaxAssets
ListedIds == 0..MaxListed
NestedTypes == {"Dataset"}
NestedUris == {<<"a">>}
Values == 0..InitBalance
RunIds == 1..MaxRuns
SessionKeys == 1..MaxRuns
Requesters == {"bob", "carol"}

VARIABLES
    nextAssetId,    \* uint256 public nextAssetId
    assets,         \* mapping(uint256 => Asset) public assets
    accessRights,   \* mapping(bytes32 => bool): the set of keys mapped to true
    locked,         \* bool private locked
    balance,        \* ether held by each account and by the contract
    revokedLog,     \* ids for which an AssetRevoked event is in the chain's log
    purchasedLog,   \* <<datasetId, applicationId, user>> of the AccessPurchased
                    \* events in the chain's log
    pc,             \* "idle", the external call purchaseAccess is inside, or "done"
    frame,          \* the purchaseAccess call in progress and the rollback snapshot
    inner,          \* the last call a payment recipient made back into the contract
    receipt,        \* the last finished top-level transaction
    form,           \* the state of the client's PurchaseAccess component
    now,            \* Date.now() on the client
    call,           \* the requestExecution call of the client, if any
    runs,           \* the execution requests the orchestrator is driving
    custodian,      \* the session keys the KeyCustodian holds
    search,         \* the hash fields of the PurchaseAccess component, their
                    \* debounce timers and the lookups in flight
    reg,            \* the state of the client's RegisterAsset component
    ipfs,           \* the CIDs the AssetStore (IPFS node) holds
    cas,            \* the sessions (asset keys) the CAS holds
    localStorage    \* the ipfs hashes with a key under "dnat_keys"

storage ==
    <<nextAssetId, assets, accessRights, locked, balance, revokedLog, purchasedLog>>
\* What lives outside the chain.
\* What the registration flow writes to besides the ledger.
registration == <<reg, ipfs, cas, localStorage>>
offchain ==
    <<form, now, call, runs, custodian, reg, ipfs, cas, localStorage, search>>
vars == <<nextAssetId, assets, accessRights, locked, balance, revokedLog, purchasedLog,
          pc, frame, inner, receipt, form, now, call, runs, custodian,
          reg, ipfs, cas, localStorage, search>>
\* The executor: orchestrator, attested stages and key custodian.
executor == <<runs, custodian>>
\* The chain: the contract, the balances and the transaction in progress.
chain == <<nextAssetId, assets, accessRights, locked, balance, revokedLog, purchasedLog,
           pc, frame, inner, receipt>>

\* The zero value a mapping returns for a key never written.
ZeroAsset ==
    [id |-> 0, assetType |-> "Dataset", owner |-> ZeroAddress,
     encryptedUri |-> EmptyString, manifestUri |-> EmptyString,
     contentHash |-> "0", price |-> 0, bloomFilter |-> EmptyString,
     active |-> FALSE]

\* keccak256(abi.encodePacked(x, y, user)): the packed encoding is the bytes of
\* x, then the bytes of y, then the 20 bytes of the address; the hash is taken
\* as injective on it.
AccessKey(x, y, user) == <<x \o y, user>>

Snapshot ==
    [nextAssetId |-> nextAssetId, assets |-> assets, accessRights |-> accessRights,
     balance |-> balance, revokedLog |-> revokedLog, purchasedLog |-> purchasedLog]

NoFrame == [active |-> FALSE]
NoCall == [op |-> "none", sender |-> ZeroAddress, status |-> "none", ret |-> 0]
NoReceipt == [op |-> "none", status |-> "none"]
\* useState<number | null>(null) twice and the two useAsset results not loaded.
\* (0 stands for null, the zero record for data not loaded).
EmptyForm ==
    [datasetId |-> 0, applicationId |-> 0, datasetAsset |-> ZeroAsset,
     applicationAsset |-> ZeroAsset]

\* useState("") for the two hash fields, no debounce timer armed, no
\* findAssetIdByHash call in flight.
NoSearch ==
    [datasetHash |-> EmptyString, applicationHash |-> EmptyString,
     datasetTimer |-> FALSE, applicationTimer |-> FALSE,
     datasetLookups |-> {}, applicationLookups |-> {}]

\* No requestExecution call has been made.
NoRequest == [pc |-> "none", fetches |-> 0]

\* A slot of the orchestrator that has not received its request yet.
NoRun ==
    [stage |-> "free", datasetId |-> 0, applicationId |-> 0,
     requester |-> ZeroAddress, fetched |-> FALSE, enclaves |-> 0,
     sessionKey |-> 0]

\* The RegisterAsset component as mounted: useState(false) for isUploading,
\* useState("") for uploadProgress, no handler running, nothing handed to the
\* wallet.
NoRegistration ==
    [pc |-> "idle", isUploading |-> FALSE, uploadProgress |-> "", alert |-> "",
     assetType |-> 0, bloomFilter |-> EmptyString, priceWei |-> 0,
     encryptedAssetHash |-> EmptyString, tx |-> << >>, submits |-> 0]

\* What the sender of a transaction gets back: the function and its
\* arguments, "ok" or the revert reason, the returned value, the events the
\* transaction left in the log, and (for comparison) the state it started in.
Receipt(op, sender, args, status, ret, logs, pre) ==
    [op |-> op, sender |-> sender, args |-> args, status |-> status, ret |-> ret,
     logs |-> logs, pre |-> pre]

Init ==
    /\ nextAssetId = 0
    /\ assets = [i \in AssetIds |-> ZeroAsset]
    /\ accessRights = {}
    /\ locked = FALSE
    /\ balance = [x \in Accounts \cup {Ledger} |->
                    IF x \in Buyers THEN InitBalance ELSE 0]
    /\ revokedLog = {}
    /\ purchasedLog = {}
    /\ pc = "idle"
    /\ frame = NoFrame
    /\ inner = NoCall
    /\ receipt = NoReceipt
    /\ form = EmptyForm
    /\ now = 0
    /\ call = NoRequest
    /\ runs = [r \in RunIds |-> NoRun]
    /\ custodian = {}
    /\ reg = NoRegistration
    /\ ipfs = {}
    /\ cas = {}
    /\ localStorage = {}
    /\ search = NoSearch

\* ------------------------------------------------------------------------
\* Asset management: the functions' effect on storage
\* ------------------------------------------------------------------------

\* registerAsset with "id = nextAssetId++" in place of "id = ++nextAssetId".
registerAsset_PostIncrement(sender, assetType, encryptedUri, manifestUri, contentHash, price, bloomFilter) ==
    LET id == nextAssetId
        bf == IF assetType = "Dataset" THEN bloomFilter ELSE EmptyString
    IN  /\ nextAssetId' = nextAssetId + 1
        /\ assets' = [assets EXCEPT ![id] =
                        [id |-> id, assetType |-> assetType, owner |-> sender,
                         encryptedUri |-> encryptedUri, manifestUri |-> manifestUri,
                         contentHash |-> contentHash, price |-> price,
                         bloomFilter |-> bf, active |-> TRUE]]
        /\ UNCHANGED <<accessRights, locked, balance, revokedLog, purchasedLog>>

\* registerAsset without "a.id = id".
registerAsset_IdNotStored(sender, assetType, encryptedUri, manifestUri, contentHash, price, bloomFilter) ==
    LET id == nextAssetId + 1
        bf == IF assetType = "Dataset" THEN bloomFilter ELSE EmptyString
    IN  /\ nextAssetId' = id
        /\ assets' = [assets EXCEPT ![id] =
                        [id |-> 0, assetType |-> assetType, owner |-> sender,
                         encryptedUri |-> encryptedUri, manifestUri |-> manifestUri,
                         contentHash |-> contentHash, price |-> price,
                         bloomFilter |-> bf, active |-> TRUE]]
        /\ UNCHANGED <<accessRights, locked, balance, revokedLog, purchasedLog>>

\* function registerAsset(...) external returns (uint256 id)
registerAsset(sender, assetType, encryptedUri, manifestUri, contentHash, price, bloomFilter) ==
    LET id == nextAssetId + 1
        bf == IF assetType = "Dataset" THEN bloomFilter ELSE EmptyString
    IN  /\ nextAssetId' = id
        /\ assets' = [assets EXCEPT ![id] =
                        [id |-> id, assetType |-> assetType, owner |-> sender,
                         encryptedUri |-> encryptedUri, manifestUri |-> manifestUri,
                         contentHash |-> contentHash, price |-> price,
                         bloomFilter |-> bf, active |-> TRUE]]
        /\ UNCHANGED <<accessRights, locked, balance, revokedLog, purchasedLog>>

AssetRegistered(id, assetType, owner, encryptedUri, manifestUri, contentHash, price, hasBloomFilter) ==
    <<"AssetRegistered", id, assetType, owner, encryptedUri, manifestUri,
      contentHash, price, hasBloomFilter>>

\* updateAsset without require(a.owner == msg.sender, ...).
updateAssetError_AnyCaller(sender, assetId) ==
    IF assets[assetId].id = 0 THEN "Asset does not exist" ELSE "ok"

\* The require statements of updateAsset, in order.
updateAssetError(sender, assetId) ==
    IF assets[assetId].id = 0 THEN "Asset does not exist"
    ELSE IF assets[assetId].owner # sender THEN "Only owner"
    ELSE "ok"

\* function updateAsset(uint256 assetId, uint256 newPrice, bool newActive) external
updateAsset(sender, assetId, newPrice, newActive) ==
    /\ assets' = IF updateAssetError(sender, assetId) = "ok"
                 THEN [assets EXCEPT ![assetId].price = newPrice,
                                     ![assetId].active = newActive]
                 ELSE assets
    /\ UNCHANGED <<nextAssetId, accessRights, locked, balance, revokedLog,
                   purchasedLog>>

AssetUpdated(id, newPrice, newActive) == <<"AssetUpdated", id, newPrice, newActive>>

\* The require statements of revokeAsset, in order.
revokeAssetError(sender, assetId) ==
    IF assets[assetId].id = 0 THEN "Asset does not exist"
    ELSE IF assets[assetId].owner # sender THEN "Only owner"
    ELSE IF ~assets[assetId].active THEN "Already revoked"
    ELSE "ok"

\* revokeAsset that also withdraws the grants made over the revoked asset.
revokeAsset_DropsGrants(sender, assetId) ==
    LET ok == revokeAssetError(sender, assetId) = "ok"
        uri == assets[assetId].encryptedUri
    IN  /\ assets' = IF ok THEN [assets EXCEPT ![assetId].active = FALSE] ELSE assets
        /\ revokedLog' = IF ok THEN revokedLog \cup {assetId} ELSE revokedLog
        /\ accessRights' =
              IF ok THEN {k \in accessRights : SubSeq(k[1], 1, Len(uri)) # uri}
              ELSE accessRights
        /\ UNCHANGED <<nextAssetId, locked, balance, purchasedLog>>

\* revokeAsset that also clears the price of the revoked asset.
revokeAsset_ClearsPrice(sender, assetId) ==
    LET ok == revokeAssetError(sender, assetId) = "ok"
    IN  /\ assets' = IF ok THEN [assets EXCEPT ![assetId].active = FALSE,
                                               ![assetId].price = 0]
                      ELSE assets
        /\ revokedLog' = IF ok THEN revokedLog \cup {assetId} ELSE revokedLog
        /\ UNCHANGED <<nextAssetId, accessRights, locked, balance, purchasedLog>>

\* function revokeAsset(uint256 assetId) external
revokeAsset(sender, assetId) ==
    LET ok == revokeAssetError(sender, assetId) = "ok"
    IN  /\ assets' = IF ok THEN [assets EXCEPT ![assetId].active = FALSE] ELSE assets
        /\ revokedLog' = IF ok THEN revokedLog \cup {assetId} ELSE revokedLog
        /\ UNCHANGED <<nextAssetId, accessRights, locked, balance, purchasedLog>>

AssetRevoked(id) == <<"AssetRevoked", id>>

\* ------------------------------------------------------------------------
\* View helpers
\* ------------------------------------------------------------------------

\* hasAccess with a key that leaves the user out.
hasAccess_AnyUser(user, encryptedDatasetHash, encryptedApplicationHash) ==
    \E u \in Accounts :
        AccessKey(encryptedDatasetHash, encryptedApplicationHash, u) \in accessRights

\* function hasAccess(address user, string, string) external view returns (bool)
hasAccess(user, encryptedDatasetHash, encryptedApplicationHash) ==
    AccessKey(encryptedDatasetHash, encryptedApplicationHash, user) \in accessRights

\* function hasAccessByIds(address user, uint256, uint256): "revert" when an id
\* is unknown, else the mapping's value.
hasAccessByIds(user, datasetId, applicationId) ==
    IF ~(assets[datasetId].id # 0 /\ assets[applicationId].id # 0) THEN "revert"
    ELSE AccessKey(assets[datasetId].encryptedUri,
                   assets[applicationId].encryptedUri, user) \in accessRights

\* function getAsset(uint256 assetId): "revert" when the id is unknown.
getAsset(assetId) ==
    IF assets[assetId].id = 0 THEN "revert" ELSE assets[assetId]


\* ------------------------------------------------------------------------
\* Access acquisition
\* ------------------------------------------------------------------------

\* uint256 addition of Solidity ^0.8: it reverts with a panic when the sum
\* does not fit.
Overflows(x, y) == x + y > MaxUint

\* uint256 totalPrice = datasetPrice + appPrice
TotalPrice(datasetPrice, appPrice) == datasetPrice + appPrice

\* The modifier without its require.
nonReentrant_NoRequire == "ok"

\* modifier nonReentrant: require(!locked, ...)
nonReentrant == IF locked THEN "ReentrancyGuard: reentrant call" ELSE "ok"

\* purchaseAccess with the active check moved before the type checks.
purchaseAccessError_ActiveFirst(datasetId, applicationId, value) ==
    LET d == assets[datasetId]
        a == assets[applicationId]
    IN  IF nonReentrant # "ok" THEN nonReentrant
        ELSE IF ~(d.id # 0 /\ a.id # 0) THEN "Asset not found"
        ELSE IF ~(d.active /\ a.active) THEN "Inactive asset"
        ELSE IF d.assetType # "Dataset" THEN "datasetId is not dataset"
        ELSE IF a.assetType # "Application" THEN "applicationId is not application"
        ELSE IF Overflows(d.price, a.price) THEN "Panic(0x11)"
        ELSE IF ~(value >= TotalPrice(d.price, a.price)) THEN "Insufficient payment"
        ELSE "ok"

\* purchaseAccess with "msg.value > totalPrice" in place of ">=".
purchaseAccessError_StrictPayment(datasetId, applicationId, value) ==
    LET d == assets[datasetId]
        a == assets[applicationId]
    IN  IF nonReentrant # "ok" THEN nonReentrant
        ELSE IF ~(d.id # 0 /\ a.id # 0) THEN "Asset not found"
        ELSE IF d.assetType # "Dataset" THEN "datasetId is not dataset"
        ELSE IF a.assetType # "Application" THEN "applicationId is not application"
        ELSE IF ~(d.active /\ a.active) THEN "Inactive asset"
        ELSE IF Overflows(d.price, a.price) THEN "Panic(0x11)"
        ELSE IF ~(value > TotalPrice(d.price, a.price)) THEN "Insufficient payment"
        ELSE "ok"

\* purchaseAccess without require(d.active && a.active, ...).
purchaseAccessError_NoActiveCheck(datasetId, applicationId, value) ==
    LET d == assets[datasetId]
        a == assets[applicationId]
    IN  IF nonReentrant # "ok" THEN nonReentrant
        ELSE IF ~(d.id # 0 /\ a.id # 0) THEN "Asset not found"
        ELSE IF d.assetType # "Dataset" THEN "datasetId is not dataset"
        ELSE IF a.assetType # "Application" THEN "applicationId is not application"
        ELSE IF Overflows(d.price, a.price) THEN "Panic(0x11)"
        ELSE IF ~(value >= TotalPrice(d.price, a.price)) THEN "Insufficient payment"
        ELSE "ok"

\* purchaseAccess without require(msg.value >= totalPrice, ...).
purchaseAccessError_NoPaymentCheck(datasetId, applicationId, value) ==
    LET d == assets[datasetId]
        a == assets[applicationId]
    IN  IF nonReentrant # "ok" THEN nonReentrant
        ELSE IF ~(d.id # 0 /\ a.id # 0) THEN "Asset not found"
        ELSE IF d.assetType # "Dataset" THEN "datasetId is not dataset"
        ELSE IF a.assetType # "Application" THEN "applicationId is not application"
        ELSE IF ~(d.active /\ a.active) THEN "Inactive asset"
        ELSE IF Overflows(d.price, a.price) THEN "Panic(0x11)"
        ELSE "ok"

\* purchaseAccess with the total computed in an unchecked block: the sum wraps
\* around instead of reverting.
purchaseAccessError_UncheckedSum(datasetId, applicationId, value) ==
    LET d == assets[datasetId]
        a == assets[applicationId]
    IN  IF nonReentrant # "ok" THEN nonReentrant
        ELSE IF ~(d.id # 0 /\ a.id # 0) THEN "Asset not found"
        ELSE IF d.assetType # "Dataset" THEN "datasetId is not dataset"
        ELSE IF a.assetType # "Application" THEN "applicationId is not application"
        ELSE IF ~(d.active /\ a.active) THEN "Inactive asset"
        ELSE IF ~(value >= TotalPrice(d.price, a.price) % (MaxUint + 1))
             THEN "Insufficient payment"
        ELSE "ok"

\* The modifier's and the function's require statements, in order.
purchaseAccessError(datasetId, applicationId, value) ==
    LET d == assets[datasetId]
        a == assets[applicationId]
    IN  IF nonReentrant # "ok" THEN nonReentrant
        ELSE IF ~(d.id # 0 /\ a.id # 0) THEN "Asset not found"
        ELSE IF d.assetType # "Dataset" THEN "datasetId is not dataset"
        ELSE IF a.assetType # "Application" THEN "applicationId is not application"
        ELSE IF ~(d.active /\ a.active) THEN "Inactive asset"
        ELSE IF Overflows(d.price, a.price) THEN "Panic(0x11)"
        ELSE IF ~(value >= TotalPrice(d.price, a.price)) THEN "Insufficient payment"
        ELSE "ok"

\* The event with its two amounts in each other's place.
AccessPurchased_SwappedAmounts(datasetId, applicationId, user, datasetPrice, applicationPrice) ==
    <<"AccessPurchased", datasetId, applicationId, user, applicationPrice,
      datasetPrice>>

AccessPurchased(datasetId, applicationId, user, datasetPrice, applicationPrice) ==
    <<"AccessPurchased", datasetId, applicationId, user, datasetPrice,
      applicationPrice>>

\* accessRights[key] = true
Granted(rights, datasetId, applicationId, user) ==
    rights \cup {AccessKey(assets[datasetId].encryptedUri,
                           assets[applicationId].encryptedUri, user)}

\* emit AccessPurchased(datasetId, applicationId, msg.sender, ...)
Logged(log, datasetId, applicationId, user) ==
    log \cup {<<datasetId, applicationId, user>>}

Transfer(bal, from, to, amount) ==
    [bal EXCEPT ![from] = @ - amount, ![to] = @ + amount]

\* The external calls of purchaseAccess, in order.
Stages == <<"payDataset", "payApp", "refund">>
StageIndex(stage) == CHOOSE i \in 1..3 : Stages[i] = stage

\* purchaseAccess that keeps the change instead of refunding it.
Amount_NoRefund(stage, f) ==
    CASE stage = "payDataset" -> f.datasetPrice
      [] stage = "payApp" -> f.appPrice
      [] stage = "refund" -> 0

\* purchaseAccess that charges nothing to a caller who already holds the grant.
Amount_FreeRepeat(stage, f) ==
    IF AccessKey(assets[f.datasetId].encryptedUri,
                 assets[f.applicationId].encryptedUri, f.sender)
          \in f.snap.accessRights
    THEN (IF stage = "refund" THEN f.value ELSE 0)
    ELSE CASE stage = "payDataset" -> f.datasetPrice
           [] stage = "payApp" -> f.appPrice
           [] stage = "refund" -> f.value - TotalPrice(f.datasetPrice, f.appPrice)

\* purchaseAccess that keeps one wei of a dataset price above one as a fee.
Amount_KeepsFee(stage, f) ==
    CASE stage = "payDataset" ->
            IF f.datasetPrice > 1 THEN f.datasetPrice - 1 ELSE f.datasetPrice
      [] stage = "payApp" -> f.appPrice
      [] stage = "refund" -> f.value - TotalPrice(f.datasetPrice, f.appPrice)

\* The value each call carries: datasetPrice, appPrice, change.
Amount(stage, f) ==
    CASE stage = "payDataset" -> f.datasetPrice
      [] stage = "payApp" -> f.appPrice
      [] stage = "refund" -> f.value - TotalPrice(f.datasetPrice, f.appPrice)

\* purchaseAccess that pays the application's price to d.owner.
RecipientOf_DatasetOwnerTwice(stage, f) ==
    CASE stage = "payDataset" -> assets[f.datasetId].owner
      [] stage = "payApp" -> assets[f.datasetId].owner
      [] stage = "refund" -> f.sender

\* d.owner, a.owner, msg.sender
RecipientOf(stage, f) ==
    CASE stage = "payDataset" -> assets[f.datasetId].owner
      [] stage = "payApp" -> assets[f.applicationId].owner
      [] stage = "refund" -> f.sender

\* A call is made only if its amount is positive: the first call after the
\* i-th, or "done" when the function body has run to its end.
NextStage(i, f) ==
    LET later == {j \in (i + 1)..3 : Amount(Stages[j], f) > 0}
    IN  IF later = {} THEN "done"
        ELSE Stages[CHOOSE j \in later : \A k \in later : j <= k]

\* The balances once the call of a stage has handed over its value.
Enter(stage, f, bal) ==
    IF stage = "done" THEN bal
    ELSE Transfer(bal, Ledger, RecipientOf(stage, f), Amount(stage, f))

RevertMessage(stage) ==
    CASE stage = "payDataset" -> "Dataset payment failed"
      [] stage = "payApp" -> "Application payment failed"
      [] stage = "refund" -> "Refund failed"

\* The locals of a purchaseAccess call, the events it has emitted, and the
\* state a revert returns to.
NewFrame(sender, datasetId, applicationId, value) ==
    [active |-> TRUE, sender |-> sender, datasetId |-> datasetId,
     applicationId |-> applicationId, value |-> value,
     datasetPrice |-> assets[datasetId].price,
     appPrice |-> assets[applicationId].price,
     snap |-> Snapshot, nested |-> 0, received |-> 0,
     logs |-> <<AccessPurchased(datasetId, applicationId, sender,
                                assets[datasetId].price,
                                assets[applicationId].price)>>]

\* The receipt of a purchase; received is the ether that reached receive()
\* during the transaction (its internal transfers to the contract).
PurchaseReceipt(f, status, logs) ==
    [op |-> "purchaseAccess", sender |-> f.sender,
     args |-> [datasetId |-> f.datasetId, applicationId |-> f.applicationId,
               value |-> f.value],
     status |-> status, ret |-> 0, logs |-> logs, pre |-> f.snap,
     received |-> IF status = "ok" THEN f.received ELSE 0]

\* function purchaseAccess(uint256 datasetId, uint256 applicationId)
\*     external payable nonReentrant
\* sent as a transaction: the checks, the grant, the event, and the body up to
\* its first external call (to its end when it makes none).
purchaseAccess(sender, datasetId, applicationId, value) ==
    LET err == purchaseAccessError(datasetId, applicationId, value)
        f == NewFrame(sender, datasetId, applicationId, value)
        st == NextStage(0, f)
    IN  /\ pc = "idle"
        /\ value <= balance[sender]
        /\ UNCHANGED offchain
        /\ inner' = NoCall
        /\ IF err # "ok"
           THEN /\ pc' = "done"
                /\ receipt' = PurchaseReceipt(f, err, << >>)
                /\ UNCHANGED <<storage, frame>>
           ELSE /\ accessRights' = Granted(accessRights, datasetId, applicationId,
                                           sender)
                /\ purchasedLog' = Logged(purchasedLog, datasetId, applicationId,
                                          sender)
                /\ balance' = Enter(st, f, Transfer(balance, sender, Ledger, value))
                /\ pc' = st
                /\ IF st = "done"
                   THEN /\ locked' = FALSE
                        /\ frame' = NoFrame
                        /\ receipt' = PurchaseReceipt(f, "ok", f.logs)
                   ELSE /\ locked' = TRUE
                        /\ frame' = f
                        /\ UNCHANGED receipt
                /\ UNCHANGED <<nextAssetId, assets, revokedLog>>

InCall == pc \in {"payDataset", "payApp", "refund"}

\* The recipient of the external call in progress returns successfully: the
\* body goes on to its next call, or to its end (locked = false).
CallReturns ==
    LET st == NextStage(StageIndex(pc), frame)
    IN  /\ InCall
        /\ UNCHANGED offchain
        /\ balance' = Enter(st, frame, balance)
        /\ pc' = st
        /\ inner' = NoCall
        /\ IF st = "done"
           THEN /\ locked' = FALSE
                /\ frame' = NoFrame
                /\ receipt' = PurchaseReceipt(frame, "ok", frame.logs)
           ELSE UNCHANGED <<locked, frame, receipt>>
        /\ UNCHANGED <<nextAssetId, assets, accessRights, revokedLog, purchasedLog>>

\* purchaseAccess without its require(ok...) lines: a call that fails (taking
\* its value back to the contract) is ignored and the body goes on.
CallReverts_Unchecked ==
    LET st == NextStage(StageIndex(pc), frame)
    IN  /\ InCall
        /\ UNCHANGED offchain
        /\ inner = NoCall
        /\ balance' = Enter(st, frame,
                            Transfer(balance, RecipientOf(pc, frame), Ledger,
                                     Amount(pc, frame)))
        /\ pc' = st
        /\ inner' = NoCall
        /\ IF st = "done"
           THEN /\ locked' = FALSE
                /\ frame' = NoFrame
                /\ receipt' = PurchaseReceipt(frame, "ok", frame.logs)
           ELSE UNCHANGED <<locked, frame, receipt>>
        /\ UNCHANGED <<nextAssetId, assets, accessRights, revokedLog, purchasedLog>>

\* The external call in progress fails (the recipient reverts): require(ok)
\* reverts the transaction, which undoes every change made since it began.
CallReverts ==
    /\ InCall
    /\ UNCHANGED offchain
    /\ nextAssetId' = frame.snap.nextAssetId
    /\ assets' = frame.snap.assets
    /\ accessRights' = frame.snap.accessRights
    /\ balance' = frame.snap.balance
    /\ revokedLog' = frame.snap.revokedLog
    /\ purchasedLog' = frame.snap.purchasedLog
    /\ locked' = FALSE
    /\ pc' = "done"
    /\ frame' = NoFrame
    /\ inner' = NoCall
    /\ receipt' = PurchaseReceipt(frame, RevertMessage(pc), << >>)

\* ------------------------------------------------------------------------
\* The other functions sent as transactions
\* ------------------------------------------------------------------------

RegisterAsset(sender, assetType, encryptedUri, manifestUri, contentHash, price, bloomFilter) ==
    /\ pc = "idle"
    /\ nextAssetId < MaxListed
    /\ registerAsset(sender, assetType, encryptedUri, manifestUri, contentHash,
                     price, bloomFilter)
    /\ receipt' = Receipt("registerAsset", sender,
            [assetType |-> assetType, encryptedUri |-> encryptedUri,
             manifestUri |-> manifestUri, contentHash |-> contentHash,
             price |-> price, bloomFilter |-> bloomFilter],
            "ok", nextAssetId',
            <<AssetRegistered(nextAssetId', assetType, sender, encryptedUri,
                              manifestUri, contentHash, price,
                              Len(assets'[nextAssetId'].bloomFilter) > 0)>>,
            Snapshot)
    /\ pc' = "done"
    /\ UNCHANGED <<frame, inner, offchain>>

UpdateAsset(sender, assetId, newPrice, newActive) ==
    LET err == updateAssetError(sender, assetId)
    IN  /\ pc = "idle"
        /\ updateAsset(sender, assetId, newPrice, newActive)
        /\ receipt' = Receipt("updateAsset", sender,
                [assetId |-> assetId, newPrice |-> newPrice,
                 newActive |-> newActive],
                err, 0,
                IF err = "ok" THEN <<AssetUpdated(assetId, newPrice, newActive)>>
                ELSE << >>,
                Snapshot)
        /\ pc' = "done"
        /\ UNCHANGED <<frame, inner, offchain>>

RevokeAsset(sender, assetId) ==
    LET err == revokeAssetError(sender, assetId)
    IN  /\ pc = "idle"
        /\ revokeAsset(sender, assetId)
        /\ receipt' = Receipt("revokeAsset", sender, [assetId |-> assetId], err, 0,
                IF err = "ok" THEN <<AssetRevoked(assetId)>> ELSE << >>,
                Snapshot)
        /\ pc' = "done"
        /\ UNCHANGED <<frame, inner, offchain>>

\* The transaction is over and its receipt delivered; the next one may begin.
Mined ==
    /\ pc = "done"
    /\ pc' = "idle"
    /\ receipt' = NoReceipt
    /\ UNCHANGED <<storage, frame, inner, offchain>>

\* ------------------------------------------------------------------------
\* Calls made by the recipient of a payment while purchaseAccess waits for it
\* ------------------------------------------------------------------------

Recipient == RecipientOf(pc, frame)

MayCall == InCall /\ frame.nested < MaxNested

Called(op, status, ret, logs) ==
    /\ inner' = [op |-> op, sender |-> Recipient, status |-> status, ret |-> ret]
    /\ frame' = [frame EXCEPT !.nested = @ + 1, !.logs = @ \o logs]
    /\ UNCHANGED <<pc, receipt, offchain>>

NestedRegisterAsset(assetType, encryptedUri, manifestUri, contentHash, price, bloomFilter) ==
    /\ MayCall
    /\ nextAssetId < MaxAssets
    /\ registerAsset(Recipient, assetType, encryptedUri, manifestUri, contentHash,
                     price, bloomFilter)
    /\ Called("registerAsset", "ok", nextAssetId',
              <<AssetRegistered(nextAssetId', assetType, Recipient, encryptedUri,
                                manifestUri, contentHash, price,
                                Len(assets'[nextAssetId'].bloomFilter) > 0)>>)

NestedUpdateAsset(assetId, newPrice, newActive) ==
    LET err == updateAssetError(Recipient, assetId)
    IN  /\ MayCall
        /\ updateAsset(Recipient, assetId, newPrice, newActive)
        /\ Called("updateAsset", err, 0,
                  IF err = "ok" THEN <<AssetUpdated(assetId, newPrice, newActive)>>
                  ELSE << >>)

NestedRevokeAsset(assetId) ==
    LET err == revokeAssetError(Recipient, assetId)
    IN  /\ MayCall
        /\ revokeAsset(Recipient, assetId)
        /\ Called("revokeAsset", err, 0,
                  IF err = "ok" THEN <<AssetRevoked(assetId)>> ELSE << >>)

\* A nested purchaseAccess runs the same function.  Were it to pass the
\* modifier and the checks, it is taken to run to its end in one step (its own
\* payments accepted at once), the modifier's last line included.
NestedPurchaseAccess(datasetId, applicationId, value) ==
    LET err == purchaseAccessError(datasetId, applicationId, value)
        f == NewFrame(Recipient, datasetId, applicationId, value)
        paid == Transfer(
                  Transfer(
                    Transfer(Transfer(balance, Recipient, Ledger, value),
                             Ledger, assets[datasetId].owner, f.datasetPrice),
                    Ledger, assets[applicationId].owner, f.appPrice),
                  Ledger, Recipient, Amount("refund", f))
    IN  /\ MayCall
        /\ value <= balance[Recipient]
        /\ IF err # "ok"
           THEN UNCHANGED storage
           ELSE /\ accessRights' = Granted(accessRights, datasetId, applicationId,
                                           Recipient)
                /\ purchasedLog' = Logged(purchasedLog, datasetId, applicationId,
                                          Recipient)
                /\ balance' = paid
                /\ locked' = FALSE
                /\ UNCHANGED <<nextAssetId, assets, revokedLog>>
        /\ Called("purchaseAccess", err, 0, IF err = "ok" THEN f.logs ELSE << >>)

\* A nested read; the returned bool is recorded as 1 or 0.
NestedHasAccess(user, encryptedDatasetHash, encryptedApplicationHash) ==
    /\ MayCall
    /\ Called("hasAccess", "ok",
              IF hasAccess(user, encryptedDatasetHash, encryptedApplicationHash)
              THEN 1 ELSE 0, << >>)
    /\ UNCHANGED storage

\* ------------------------------------------------------------------------
\* The specification
\* ------------------------------------------------------------------------

Next ==
    \/ \E r \in Registrations, manifestUri \in ManifestUris,
          contentHash \in ContentHashes, price \in ListPrices,
          bloomFilter \in BloomFilters :
            RegisterAsset(r[1], r[2], r[3], manifestUri, contentHash,
                          price, bloomFilter)
    \/ \E sender \in Accounts, assetId \in ListedIds, newPrice \in NewPrices,
          newActive \in BOOLEAN :
            UpdateAsset(sender, assetId, newPrice, newActive)
    \/ \E sender \in Accounts, assetId \in ListedIds : RevokeAsset(sender, assetId)
    \/ \E sender \in Buyers, datasetId \in ListedIds, applicationId \in ListedIds,
          value \in Values :
            purchaseAccess(sender, datasetId, applicationId, value)
    \/ Mined
    \/ CallReturns
    \/ CallReverts
    \/ \E assetType \in NestedTypes, encryptedUri \in NestedUris,
          manifestUri \in ManifestUris, contentHash \in ContentHashes,
          price \in NestedPrices, bloomFilter \in BloomFilters :
            NestedRegisterAsset(assetType, encryptedUri, manifestUri, contentHash,
                                price, bloomFilter)
    \/ \E assetId \in ListedIds \ {0}, newPrice \in NewPrices, newActive \in BOOLEAN :
            NestedUpdateAsset(assetId, newPrice, newActive)
    \/ \E assetId \in ListedIds \ {0} : NestedRevokeAsset(assetId)
    \/ \E datasetId \in ListedIds \ {0}, applicationId \in ListedIds \ {0},
          value \in NestedValues :
            NestedPurchaseAccess(datasetId, applicationId, value)
    \/ \E user \in Accounts, x \in Uris, y \in Uris : NestedHasAccess(user, x, y)

Spec == Init /\ [][Next]_vars

\* ------------------------------------------------------------------------
\* The client's PurchaseAccess component
\* ------------------------------------------------------------------------

\* findAssetIdByHash: the first id from 1 to min(100, nextAssetId) whose
\* encryptedUri is the hash, or null.
findAssetIdByHash(encryptedHash) ==
    LET searchLimit == IF nextAssetId < SearchLimit THEN nextAssetId ELSE SearchLimit
        found == {id \in 1..searchLimit : assets[id].id # 0
                                          /\ getAsset(id).encryptedUri = encryptedHash}
    IN  IF found = {} THEN 0 ELSE CHOOSE id \in found : \A j \in found : id <= j

\* const totalPrice = datasetPrice + applicationPrice, in unbounded integers,
\* with 0 for a price that is not loaded.
totalPrice == form.datasetAsset.price + form.applicationAsset.price

\* The user types the two hashes: the two searches set the ids, useAsset loads
\* the two records with getAsset, and the verification effect clears an id whose
\* record has the wrong type.
LookUp(datasetHash, applicationHash) ==
    LET d == findAssetIdByHash(datasetHash)
        a == findAssetIdByHash(applicationHash)
        dOk == d # 0 /\ getAsset(d).assetType = "Dataset"
        aOk == a # 0 /\ getAsset(a).assetType = "Application"
    IN  /\ pc = "idle"
        /\ form' = [datasetId |-> IF dOk THEN d ELSE 0,
                    applicationId |-> IF aOk THEN a ELSE 0,
                    datasetAsset |-> IF dOk THEN getAsset(d) ELSE ZeroAsset,
                    applicationAsset |-> IF aOk THEN getAsset(a) ELSE ZeroAsset]
        /\ UNCHANGED <<chain, now, call, executor, registration, search>>

\* handleSubmit: write("purchaseAccess", [datasetId, applicationId], totalPrice)
handleSubmit(address) ==
    /\ form.datasetId # 0
    /\ form.applicationId # 0
    /\ purchaseAccess(address, form.datasetId, form.applicationId, totalPrice)

\* An owner changes its asset between the buyer's read and the purchase.
OwnerUpdates(assetId, newPrice, newActive) ==
    UpdateAsset(assets[assetId].owner, assetId, newPrice, newActive)

NextClient ==
    \/ \E r \in Registrations, manifestUri \in ManifestUris,
          contentHash \in ContentHashes, price \in ListPrices,
          bloomFilter \in BloomFilters :
            RegisterAsset(r[1], r[2], r[3], manifestUri, contentHash,
                          price, bloomFilter)
    \/ \E assetId \in ListedIds \ {0}, newPrice \in NewPrices, newActive \in BOOLEAN :
            OwnerUpdates(assetId, newPrice, newActive)
    \/ \E datasetHash \in Uris, applicationHash \in Uris :
            LookUp(datasetHash, applicationHash)
    \/ \E address \in Buyers : handleSubmit(address)
    \/ Mined
    \/ CallReturns
    \/ CallReverts

SpecClient == Init /\ [][NextClient]_vars

\* ------------------------------------------------------------------------
\* The client's executor service: requestExecution
\* ------------------------------------------------------------------------

\* JavaScript values are written as their JSON text, "undefined" for a missing
\* property.
ToJson(n) == CASE n = 0 -> "0" [] n = 1 -> "1" [] n = 2 -> "2" [] OTHER -> "3"
Falsy(v) == v \in {"undefined", "null", "false", "0", "\"\""}
\* a || b
OrElse(a, b) == IF Falsy(a) THEN b ELSE a

\* interface ExecutionRequest, as handleExecute fills it.
ExecutionRequests ==
    [datasetId : {"1"}, applicationId : {"2"}, userAddress : {"carol"},
     params : {"undefined", "{}"}]

\* What the executor's HTTP endpoint may answer: any status, and a body that is
\* not JSON, the JSON null, or a JSON object with or without each property.
Statuses == {200, 403, 500}
Bodies ==
    [json : {"invalid", "null"}, success : {"undefined"}, output : {"undefined"},
     error : {"undefined"}, executionTime : {"undefined"}]
    \cup
    [json : {"object"},
     success : {"undefined", "true", "false"},
     output : {"undefined", "\"R\""},
     error : {"undefined", "\"\"", "\"AccessDenied\""},
     executionTime : {"undefined", "0", "7"}]
NoBody ==
    [json |-> "none", success |-> "undefined", output |-> "undefined",
     error |-> "undefined", executionTime |-> "undefined"]
NetworkErrors == {"Failed to fetch"}

\* The clock advances.
Tick ==
    /\ now < MaxTime
    /\ now' = now + 1
    /\ UNCHANGED <<chain, form, call, executor, registration, search>>

\* requestExecution(request) up to its first await: startTime, and the one
\* fetch of POST /execute.
requestExecution(request) ==
    /\ call.pc \in {"none", "returned"}
    /\ call' = [pc |-> "fetch", fetches |-> 1, request |-> request,
                startTime |-> now]
    /\ UNCHANGED <<chain, form, now, executor, registration, search>>

\* The catch block: a failure result, never a retry.
Caught(message) ==
    [success |-> "false", output |-> "undefined", error |-> message,
     executionTime |-> ToJson(now - call.startTime), timestamp |-> ToJson(now)]

Returned(response, result) ==
    [pc |-> "returned", fetches |-> call.fetches, request |-> call.request,
     startTime |-> call.startTime, response |-> response, result |-> result]

\* requestExecution whose "ok" branch takes an answered request for a
\* successful execution.
fetchResolves_OkMeansSuccess(status, body) ==
    LET ok == status \in 200..299
        response == [ok |-> ok, status |-> status, body |-> body]
        executionTime == ToJson(now - call.startTime)
        result ==
            IF body.json = "invalid" THEN Caught("Unexpected token < in JSON")
            ELSE IF body.json = "null"
                 THEN Caught("Cannot read properties of null")
            ELSE IF ~ok
                 THEN [success |-> "false", output |-> "undefined",
                       error |-> OrElse(body.error, "Executor error"),
                       executionTime |-> executionTime,
                       timestamp |-> ToJson(now)]
            ELSE [success |-> "true", output |-> body.output,
                  error |-> body.error,
                  executionTime |-> OrElse(body.executionTime, executionTime),
                  timestamp |-> ToJson(now)]
    IN  /\ call.pc = "fetch"
        /\ call' = Returned(response, result)
        /\ UNCHANGED <<chain, form, now, executor, registration, search>>

\* The fetch resolves with a response: response.json() (which throws on a body
\* that is not JSON, and on whose null result the property reads throw), the
\* elapsed time, and the branch on response.ok.
fetchResolves(status, body) ==
    LET ok == status \in 200..299
        response == [ok |-> ok, status |-> status, body |-> body]
        executionTime == ToJson(now - call.startTime)
        result ==
            IF body.json = "invalid" THEN Caught("Unexpected token < in JSON")
            ELSE IF body.json = "null"
                 THEN Caught("Cannot read properties of null")
            ELSE IF ~ok
                 THEN [success |-> "false", output |-> "undefined",
                       error |-> OrElse(body.error, "Executor error"),
                       executionTime |-> executionTime,
                       timestamp |-> ToJson(now)]
            ELSE [success |-> body.success, output |-> body.output,
                  error |-> body.error,
                  executionTime |-> OrElse(body.executionTime, executionTime),
                  timestamp |-> ToJson(now)]
    IN  /\ call.pc = "fetch"
        /\ call' = Returned(response, result)
        /\ UNCHANGED <<chain, form, now, executor, registration, search>>

\* The fetch rejects (the executor cannot be reached).
fetchRejects(message) ==
    /\ call.pc = "fetch"
    /\ call' = Returned([ok |-> FALSE, status |-> 0, body |-> NoBody],
                        Caught(message))
    /\ UNCHANGED <<chain, form, now, executor, registration, search>>

NextRequest ==
    \/ \E request \in ExecutionRequests : requestExecution(request)
    \/ \E status \in Statuses, body \in Bodies : fetchResolves(status, body)
    \/ \E message \in NetworkErrors : fetchRejects(message)
    \/ Tick

SpecRequest == Init /\ [][NextRequest]_vars

\* ------------------------------------------------------------------------
\* The executor: ExecutionOrchestrator, ReencryptionStage, ExecutionStage and
\* KeyCustodian.  Every read of the ledger is a call of the contract's view
\* functions on the state the last finished transaction left.
\* ------------------------------------------------------------------------

Committed == ~InCall

Step(r, changed) ==
    /\ runs' = [runs EXCEPT ![r] = changed]
    /\ UNCHANGED <<chain, form, now, call, registration, search>>

\* Input: (datasetId, applicationId, requester, parameters).
ReceiveRequest(r, datasetId, applicationId, requester) ==
    /\ runs[r].stage = "free"
    /\ \A q \in RunIds : q < r => runs[q].stage # "free"
    /\ Step(r, [runs[r] EXCEPT !.stage = "received", !.datasetId = datasetId,
                               !.applicationId = applicationId,
                               !.requester = requester])
    /\ UNCHANGED custodian

\* Step 1, authorization: getAsset for both ids, then hasAccess(requester,
\* datasetCipherRef, applicationCipherRef); AccessDenied if false.
Authorize(r) ==
    LET run == runs[r]
        found == assets[run.datasetId].id # 0 /\ assets[run.applicationId].id # 0
        granted == hasAccess(run.requester, getAsset(run.datasetId).encryptedUri,
                             getAsset(run.applicationId).encryptedUri)
    IN  /\ run.stage = "received"
        /\ Committed
        /\ Step(r, [run EXCEPT !.stage = IF ~found THEN "NotFound"
                                         ELSE IF ~granted THEN "AccessDenied"
                                         ELSE "authorized"])
        /\ UNCHANGED custodian

\* Step 2, fetch: the encrypted bytes of both assets from the AssetStore, or
\* AssetUnavailable.
Fetch(r, available) ==
    /\ runs[r].stage = "authorized"
    /\ Step(r, [runs[r] EXCEPT !.stage = IF available THEN "fetched"
                                         ELSE "AssetUnavailable",
                               !.fetched = available])
    /\ UNCHANGED custodian

\* Step 3, stage 1 invocation: the ReencryptionStage enclave is started.
InvokeStage1(r) ==
    /\ runs[r].stage = "fetched"
    /\ Step(r, [runs[r] EXCEPT !.stage = "stage1", !.enclaves = @ + 1])
    /\ UNCHANGED custodian

\* A ReencryptionStage that derives its key from nothing that varies.
ReencryptionStage_FixedKey(r, key) ==
    /\ runs[r].stage = "stage1"
    /\ Step(r, [runs[r] EXCEPT !.stage = "reencrypted", !.sessionKey = 1])
    /\ custodian' = custodian \cup {1}

\* ReencryptionStage: a fresh sessionKey, unique per invocation, registered
\* with the KeyCustodian before the stage returns.
ReencryptionStage(r, key) ==
    /\ runs[r].stage = "stage1"
    /\ \A q \in RunIds : runs[q].sessionKey # key
    /\ Step(r, [runs[r] EXCEPT !.stage = "reencrypted", !.sessionKey = key])
    /\ custodian' = custodian \cup {key}

\* Step 4, stage 2 invocation, a blocking step after stage 1 has returned.
InvokeStage2(r) ==
    /\ runs[r].stage = "reencrypted"
    /\ Step(r, [runs[r] EXCEPT !.stage = "stage2", !.enclaves = @ + 1])
    /\ UNCHANGED custodian

\* ExecutionStage: obtains sessionKey from the KeyCustodian (Denied when it is
\* not there), re-verifies hasAccess directly against the ledger
\* (AccessDenied if false), runs the application, and discards the key.
ExecutionStage(r) ==
    LET run == runs[r]
        granted == hasAccess(run.requester, getAsset(run.datasetId).encryptedUri,
                             getAsset(run.applicationId).encryptedUri)
    IN  /\ run.stage = "stage2"
        /\ Committed
        /\ Step(r, [run EXCEPT !.stage = IF run.sessionKey \notin custodian
                                         THEN "Denied"
                                         ELSE IF ~granted THEN "AccessDenied"
                                         ELSE "result"])
        /\ custodian' = custodian \ {run.sessionKey}

NextExecutor ==
    \/ \E r \in Registrations, manifestUri \in ManifestUris,
          contentHash \in ContentHashes, price \in NestedPrices,
          bloomFilter \in BloomFilters :
            RegisterAsset(r[1], r[2], r[3], manifestUri, contentHash,
                          price, bloomFilter)
    \/ \E sender \in Buyers, datasetId \in ListedIds \ {0},
          applicationId \in ListedIds \ {0} :
            purchaseAccess(sender, datasetId, applicationId, MaxPrice)
    \/ Mined
    \/ CallReturns
    \/ CallReverts
    \/ \E r \in RunIds, datasetId \in ListedIds \ {0},
          applicationId \in ListedIds \ {0}, requester \in Requesters :
            ReceiveRequest(r, datasetId, applicationId, requester)
    \/ \E r \in RunIds : Authorize(r)
    \/ \E r \in RunIds, available \in BOOLEAN : Fetch(r, available)
    \/ \E r \in RunIds : InvokeStage1(r)
    \/ \E r \in RunIds, key \in SessionKeys : ReencryptionStage(r, key)
    \/ \E r \in RunIds : InvokeStage2(r)
    \/ \E r \in RunIds : ExecutionStage(r)

SpecExecutor == Init /\ [][NextExecutor]_vars

\* The registry alone, with every kind of string registerAsset accepts.
AnyUris == Uris \cup {EmptyString}
AnyManifestUris == ManifestUris \cup {EmptyString}

NextRegistry ==
    \/ \E sender \in Accounts, assetType \in AssetTypes, encryptedUri \in AnyUris,
          manifestUri \in AnyManifestUris, contentHash \in ContentHashes,
          price \in ListPrices, bloomFilter \in BloomFilters :
            RegisterAsset(sender, assetType, encryptedUri, manifestUri, contentHash,
                          price, bloomFilter)
    \/ Mined

SpecRegistry == Init /\ [][NextRegistry]_vars

\* ------------------------------------------------------------------------
\* The client's RegisterAsset component: handleSubmit, one action per await
\* ------------------------------------------------------------------------

\* /^[0-9a-fA-F]*$/ and /^\d+$/
HexDigits ==
    {"0", "1", "2", "3", "4", "5", "6", "7", "8", "9",
     "a", "b", "c", "d", "e", "f", "A", "B", "C", "D", "E", "F"}
IsHex(s) == \A i \in 1..Len(s) : s[i] \in HexDigits
DecimalDigits == <<"0", "1", "2", "3", "4", "5", "6", "7", "8", "9">>
IsDecimal(s) ==
    Len(s) > 0 /\ \A i \in 1..Len(s) : \E d \in 1..10 : DecimalDigits[d] = s[i]

\* BigInt(priceValue) of a string of decimal digits.
RECURSIVE BigInt(_)
BigInt(s) ==
    IF Len(s) = 0 THEN 0
    ELSE 10 * BigInt(SubSeq(s, 1, Len(s) - 1))
         + (CHOOSE d \in 1..10 : DecimalDigits[d] = s[Len(s)]) - 1

\* s.startsWith(prefix)
StartsWith(s, prefix) ==
    Len(s) >= Len(prefix) /\ SubSeq(s, 1, Len(prefix)) = prefix

\* `ipfs://${cid}` and .replace(/^ipfs:\/\//, "")
IpfsUri(cid) == <<"ipfs://">> \o cid
RemoveIpfsPrefix(uri) ==
    IF StartsWith(uri, <<"ipfs://">>) THEN SubSeq(uri, 2, Len(uri)) ELSE uri

\* generateSessionName: `dnat-${assetType}-${ipfsHash.slice(0, 16)}`
generateSessionName(assetType, ipfsHash) ==
    <<"dnat-", assetType, "-">>
        \o SubSeq(ipfsHash, 1, IF Len(ipfsHash) < 16 THEN Len(ipfsHash) ELSE 16)

\* assetType === 0 ? "dataset" : "application"; enum AssetType of the contract.
AssetTypeName(assetType) == IF assetType = 0 THEN "dataset" ELSE "application"
AssetTypeOf(assetType) == IF assetType = 0 THEN "Dataset" ELSE "Application"

\* What the user has typed into the form when the Register button is pressed.
\* (The button is disabled without a file, so assetFile is never null here.)
PriceInputs == {EmptyString, <<"1">>, <<"-", "1">>}
BloomInputs == {EmptyString, <<"0", "x", "a", "b">>, <<"z", "z">>}
FormInputs ==
    [assetType : {0, 1}, manifest : BOOLEAN, contentHash : {"h", ""},
     price : PriceInputs, bloomFilter : BloomInputs]

\* The account the wallet is connected with.
Wallet == "alice"

\* disabled={isProcessing || !assetFile || isCalculatingHash || isUploading}
RegisterDisabled == reg.tx # << >> \/ reg.isUploading

\* The catch block of handleSubmit.
Thrown(message) ==
    [reg EXCEPT !.pc = "idle", !.isUploading = FALSE, !.uploadProgress = "",
                !.alert = message]

\* The handler is at the await of step `at`, and it goes on to `to` with the
\* progress message set before the next await, or throws.
Awaited(at, ok, to, progress, message) ==
    /\ reg.pc = at
    /\ reg' = IF ok THEN [reg EXCEPT !.pc = to, !.uploadProgress = progress]
              ELSE Thrown(message)

\* handleSubmit up to its first await: the validations, then
\* setIsUploading(true) and the IPFS check.
StartRegistration(input) ==
    LET priceValue == IF input.price = EmptyString THEN <<"0">> ELSE input.price
    IN  /\ reg.pc = "idle"
        /\ ~RegisterDisabled
        /\ reg.submits < MaxSubmits
        /\ reg' =
             IF ~input.manifest
             THEN [reg EXCEPT !.alert = "Please fill in all required manifest fields"]
             ELSE IF input.contentHash = ""
             THEN [reg EXCEPT !.alert = "Content hash is invalid"]
             ELSE IF ~IsDecimal(priceValue)
             THEN [reg EXCEPT !.alert = "Price must be a positive integer in Wei"]
             ELSE [pc |-> "checkIPFSConnection", isUploading |-> TRUE,
                   uploadProgress |-> "Checking IPFS connection...",
                   alert |-> "", assetType |-> input.assetType,
                   bloomFilter |-> input.bloomFilter,
                   priceWei |-> BigInt(priceValue),
                   encryptedAssetHash |-> EmptyString, tx |-> << >>,
                   submits |-> reg.submits + 1]
        /\ UNCHANGED <<chain, form, now, call, executor, ipfs, cas, localStorage,
                   search>>

\* const isIPFSConnected = await checkIPFSConnection()
checkIPFSConnection(isIPFSConnected) ==
    /\ reg.pc = "checkIPFSConnection"
    /\ reg' = IF isIPFSConnected
              THEN [reg EXCEPT !.pc = "generateEncryptionKey",
                               !.uploadProgress = "Generating encryption key..."]
              ELSE [reg EXCEPT !.pc = "idle", !.isUploading = FALSE,
                               !.alert = "IPFS node is not available"]
    /\ UNCHANGED <<chain, form, now, call, executor, ipfs, cas, localStorage,
                   search>>

\* Step 1: await generateEncryptionKey()
generateEncryptionKey(ok) ==
    /\ Awaited("generateEncryptionKey", ok, "encryptFile",
               "Encrypting asset file...", "Registration failed")
    /\ UNCHANGED <<chain, form, now, call, executor, ipfs, cas, localStorage,
                   search>>

\* Step 2: await encryptFile(assetFile, encryptionKey)
encryptFile(ok) ==
    /\ Awaited("encryptFile", ok, "uploadFileToIPFS",
               "Uploading encrypted asset to IPFS...", "Registration failed")
    /\ UNCHANGED <<chain, form, now, call, executor, ipfs, cas, localStorage,
                   search>>

\* Step 3: await uploadFileToIPFS(encryptedBlob): the node pins the bytes and
\* answers their CID, or the upload throws.
uploadFileToIPFS(cid, ok) ==
    /\ reg.pc = "uploadFileToIPFS"
    /\ reg' = IF ok
              THEN [reg EXCEPT !.pc = "uploadKeyToCAS",
                               !.uploadProgress = "Uploading encryption key to CAS...",
                               !.encryptedAssetHash = RemoveIpfsPrefix(IpfsUri(cid))]
              ELSE Thrown("Registration failed: Failed to upload to IPFS")
    /\ ipfs' = IF ok THEN ipfs \cup {cid} ELSE ipfs
    /\ UNCHANGED <<chain, form, now, call, executor, cas, localStorage, search>>

\* Step 4: await uploadKeyToCAS(...), which never throws; on
\* !casResult.success the key goes to localStorage (storeKeyLocally) and the
\* handler goes on.
uploadKeyToCAS(success) ==
    LET sessionName == generateSessionName(AssetTypeName(reg.assetType),
                                           reg.encryptedAssetHash)
    IN  /\ reg.pc = "uploadKeyToCAS"
        /\ reg' = [reg EXCEPT !.pc = "uploadToIPFS",
                              !.uploadProgress = "Uploading manifest to IPFS..."]
        /\ cas' = IF success THEN cas \cup {sessionName} ELSE cas
        /\ localStorage' = IF success THEN localStorage
                           ELSE localStorage \cup {reg.encryptedAssetHash}
        /\ UNCHANGED <<chain, form, now, call, executor, ipfs, search>>

\* Step 5: await uploadToIPFS(manifestYAML), then, with no await between them,
\* the Bloom filter check (whose failure returns from inside the try block)
\* and write("registerAsset", [...]), which throws without a contract address
\* and else hands the transaction to the wallet (writeContract).
uploadToIPFS(manifestCID, ok, address) ==
    LET cleanHex == IF StartsWith(reg.bloomFilter, <<"0", "x">>)
                    THEN SubSeq(reg.bloomFilter, 3, Len(reg.bloomFilter))
                    ELSE reg.bloomFilter
        args == [assetType |-> AssetTypeOf(reg.assetType),
                 encryptedUri |-> IpfsUri(reg.encryptedAssetHash),
                 manifestUri |-> IpfsUri(manifestCID),
                 contentHash |-> "h", price |-> reg.priceWei,
                 bloomFilter |-> cleanHex]
    IN  /\ reg.pc = "uploadToIPFS"
        /\ reg' =
             IF ~ok THEN Thrown("Registration failed: Failed to upload to IPFS")
             ELSE IF ~IsHex(cleanHex)
             THEN [reg EXCEPT !.pc = "idle",
                              !.uploadProgress = "Registering on blockchain...",
                              !.alert = "Bloom filter must be valid hex"]
             ELSE IF ~address
             THEN Thrown("Registration failed: Contract not deployed on this network")
             ELSE [reg EXCEPT !.pc = "idle", !.isUploading = FALSE,
                              !.uploadProgress = "", !.tx = <<args>>]
        /\ ipfs' = IF ok THEN ipfs \cup {manifestCID} ELSE ipfs
        /\ UNCHANGED <<chain, form, now, call, executor, cas, localStorage, search>>

\* writeContract: the wallet sends the transaction handed to it (the contract
\* runs registerAsset), or the user rejects it.
writeContract(confirmed) ==
    LET tx == reg.tx[1]
    IN  /\ reg.tx # << >>
        /\ pc = "idle"
        /\ reg' = [reg EXCEPT !.tx = << >>]
        /\ IF confirmed
           THEN /\ nextAssetId < MaxListed
                /\ registerAsset(Wallet, tx.assetType, tx.encryptedUri, tx.manifestUri,
                                 tx.contentHash, tx.price, tx.bloomFilter)
                /\ receipt' = Receipt("registerAsset", Wallet, tx, "ok", nextAssetId',
                        <<AssetRegistered(nextAssetId', tx.assetType, Wallet,
                                          tx.encryptedUri, tx.manifestUri,
                                          tx.contentHash, tx.price,
                                          Len(assets'[nextAssetId'].bloomFilter) > 0)>>,
                        Snapshot)
                /\ pc' = "done"
           ELSE UNCHANGED <<storage, pc, receipt>>
        /\ UNCHANGED <<frame, inner, form, now, call, executor, ipfs, cas,
                       localStorage, search>>

NextRegister ==
    \/ \E input \in FormInputs : StartRegistration(input)
    \/ \E isIPFSConnected \in BOOLEAN : checkIPFSConnection(isIPFSConnected)
    \/ \E ok \in BOOLEAN : generateEncryptionKey(ok)
    \/ \E ok \in BOOLEAN : encryptFile(ok)
    \/ \E cid \in Uris, ok \in BOOLEAN : uploadFileToIPFS(cid, ok)
    \/ \E success \in BOOLEAN : uploadKeyToCAS(success)
    \/ \E manifestCID \in ManifestUris, ok \in BOOLEAN, address \in BOOLEAN :
            uploadToIPFS(manifestCID, ok, address)
    \/ \E confirmed \in BOOLEAN : writeContract(confirmed)
    \/ Mined

SpecRegister == Init /\ [][NextRegister]_vars

\* ------------------------------------------------------------------------
\* The ledger with an asset listed a second time: registerAsset accepts an
\* encryptedUri that an earlier asset already has
\* ------------------------------------------------------------------------

\* A buyer registers, as its own asset, the encryptedUri of a listed asset.
RegisterAgain(sender, assetId, price) ==
    LET a == assets[assetId]
    IN  /\ pc = "idle"
        /\ a.id # 0
        /\ nextAssetId < MaxAssets
        /\ registerAsset(sender, a.assetType, a.encryptedUri, a.manifestUri,
                         a.contentHash, price, EmptyString)
        /\ receipt' = Receipt("registerAsset", sender,
                [assetType |-> a.assetType, encryptedUri |-> a.encryptedUri,
                 manifestUri |-> a.manifestUri, contentHash |-> a.contentHash,
                 price |-> price, bloomFilter |-> EmptyString],
                "ok", nextAssetId',
                <<AssetRegistered(nextAssetId', a.assetType, sender, a.encryptedUri,
                                  a.manifestUri, a.contentHash, price, FALSE)>>,
                Snapshot)
        /\ pc' = "done"
        /\ UNCHANGED <<frame, inner, offchain>>

NextReuse ==
    \/ \E r \in Registrations, manifestUri \in ManifestUris,
          contentHash \in ContentHashes, price \in ListPrices,
          bloomFilter \in BloomFilters :
            RegisterAsset(r[1], r[2], r[3], manifestUri, contentHash,
                          price, bloomFilter)
    \/ \E sender \in Buyers, assetId \in ListedIds \ {0}, price \in NestedValues :
            RegisterAgain(sender, assetId, price)
    \/ \E sender \in Buyers, datasetId \in AssetIds \ {0},
          applicationId \in AssetIds \ {0} :
            purchaseAccess(sender, datasetId, applicationId, MaxPrice)
    \/ Mined
    \/ CallReturns
    \/ CallReverts

SpecReuse == Init /\ [][NextReuse]_vars

\* ------------------------------------------------------------------------
\* The ledger with ether sent to the contract itself: receive() and fallback()
\* accept any value, from a transaction or from a payment recipient while
\* purchaseAccess waits for it
\* ------------------------------------------------------------------------

\* receive() external payable {}
Receive(sender, value) ==
    /\ pc = "idle"
    /\ value <= balance[sender]
    /\ balance' = Transfer(balance, sender, Ledger, value)
    /\ receipt' = Receipt("receive", sender, [value |-> value], "ok", 0, << >>,
                          Snapshot)
    /\ pc' = "done"
    /\ UNCHANGED <<nextAssetId, assets, accessRights, locked, revokedLog,
                   purchasedLog, frame, inner, offchain>>

NestedReceive(value) ==
    /\ MayCall
    /\ value <= balance[Recipient]
    /\ balance' = Transfer(balance, Recipient, Ledger, value)
    /\ inner' = [op |-> "receive", sender |-> Recipient, status |-> "ok", ret |-> 0]
    /\ frame' = [frame EXCEPT !.nested = @ + 1, !.received = @ + value]
    /\ UNCHANGED <<pc, receipt, offchain>>
    /\ UNCHANGED <<nextAssetId, assets, accessRights, locked, revokedLog,
                   purchasedLog>>

NextFunds ==
    \/ \E r \in Registrations, manifestUri \in ManifestUris,
          contentHash \in ContentHashes, price \in ListPrices,
          bloomFilter \in BloomFilters :
            RegisterAsset(r[1], r[2], r[3], manifestUri, contentHash,
                          price, bloomFilter)
    \/ \E sender \in Buyers, datasetId \in ListedIds, applicationId \in ListedIds,
          value \in Values :
            purchaseAccess(sender, datasetId, applicationId, value)
    \/ \E sender \in Buyers, value \in NestedPrices : Receive(sender, value)
    \/ \E value \in NestedPrices : NestedReceive(value)
    \/ Mined
    \/ CallReturns
    \/ CallReverts

SpecFunds == Init /\ [][NextFunds]_vars

\* ------------------------------------------------------------------------
\* The client's PurchaseAccess component with its two debounced searches: the
\* user types, a timer fires 800 ms after the last keystroke and starts
\* findAssetIdByHash, and each call sets the id when it comes back
\* ------------------------------------------------------------------------

\* onChange of the dataset field: setDatasetHash; the effect's cleanup clears
\* the timer of the previous value (never a search already started) and the
\* effect arms a new one.
setDatasetHash(hash) ==
    /\ hash # search.datasetHash
    /\ search' = [search EXCEPT !.datasetHash = hash, !.datasetTimer = TRUE]
    /\ UNCHANGED <<chain, form, now, call, executor, registration>>

setApplicationHash(hash) ==
    /\ hash # search.applicationHash
    /\ search' = [search EXCEPT !.applicationHash = hash,
                                !.applicationTimer = TRUE]
    /\ UNCHANGED <<chain, form, now, call, executor, registration>>

\* The timer fires: searchDataset up to its await.  An empty field sets the
\* id to null at once; otherwise findAssetIdByHash(datasetHash) is called
\* with the value the effect closed over.
searchDataset ==
    /\ search.datasetTimer
    /\ IF search.datasetHash = EmptyString
       THEN /\ form' = [form EXCEPT !.datasetId = 0, !.datasetAsset = ZeroAsset]
            /\ search' = [search EXCEPT !.datasetTimer = FALSE]
       ELSE /\ search' = [search EXCEPT !.datasetTimer = FALSE,
                             !.datasetLookups = @ \cup {search.datasetHash}]
            /\ UNCHANGED form
    /\ UNCHANGED <<chain, now, call, executor, registration>>

searchApplication ==
    /\ search.applicationTimer
    /\ IF search.applicationHash = EmptyString
       THEN /\ form' = [form EXCEPT !.applicationId = 0,
                                    !.applicationAsset = ZeroAsset]
            /\ search' = [search EXCEPT !.applicationTimer = FALSE]
       ELSE /\ search' = [search EXCEPT !.applicationTimer = FALSE,
                             !.applicationLookups = @ \cup {search.applicationHash}]
            /\ UNCHANGED form
    /\ UNCHANGED <<chain, now, call, executor, registration>>

\* A findAssetIdByHash call of searchDataset comes back, with the id found or
\* null, or throwing: setDatasetId(foundId) or setDatasetId(null).  The record
\* useAsset holds is that of the new id once loaded (see useAsset below).
searchDatasetResolves(hash, ok) ==
    LET foundId == IF ok THEN findAssetIdByHash(hash) ELSE 0
    IN  /\ hash \in search.datasetLookups
        /\ ~InCall
        /\ search' = [search EXCEPT !.datasetLookups = @ \ {hash}]
        /\ form' = [form EXCEPT !.datasetId = foundId,
                        !.datasetAsset = IF foundId = form.datasetId THEN @
                                         ELSE ZeroAsset]
        /\ UNCHANGED <<chain, now, call, executor, registration>>

searchApplicationResolves(hash, ok) ==
    LET foundId == IF ok THEN findAssetIdByHash(hash) ELSE 0
    IN  /\ hash \in search.applicationLookups
        /\ ~InCall
        /\ search' = [search EXCEPT !.applicationLookups = @ \ {hash}]
        /\ form' = [form EXCEPT !.applicationId = foundId,
                        !.applicationAsset = IF foundId = form.applicationId THEN @
                                             ELSE ZeroAsset]
        /\ UNCHANGED <<chain, now, call, executor, registration>>

\* useAsset(datasetId), useAsset(applicationId) load the two records with
\* getAsset, and the verification effect sets to null an id whose record has
\* the wrong type.
useAsset ==
    LET d == form.datasetId
        a == form.applicationId
        dOk == d # 0 /\ assets[d].id # 0 /\ getAsset(d).assetType = "Dataset"
        aOk == a # 0 /\ assets[a].id # 0 /\ getAsset(a).assetType = "Application"
    IN  /\ ~InCall
        /\ form' = [datasetId |-> IF dOk THEN d ELSE 0,
                    applicationId |-> IF aOk THEN a ELSE 0,
                    datasetAsset |-> IF dOk THEN getAsset(d) ELSE ZeroAsset,
                    applicationAsset |-> IF aOk THEN getAsset(a) ELSE ZeroAsset]
        /\ form' # form
        /\ UNCHANGED <<chain, now, call, executor, registration, search>>

\* The ledger the form is used on lists the dataset and the application of
\* one owner, under two hashes.
FormRegistrations == {r \in Registrations : r[1] = "alice"}

NextForm ==
    \/ \E r \in FormRegistrations, manifestUri \in ManifestUris,
          contentHash \in ContentHashes, price \in NestedPrices,
          bloomFilter \in BloomFilters :
            RegisterAsset(r[1], r[2], r[3], manifestUri, contentHash,
                          price, bloomFilter)
    \/ \E hash \in AnyUris : setDatasetHash(hash)
    \/ \E hash \in AnyUris : setApplicationHash(hash)
    \/ searchDataset
    \/ searchApplication
    \/ \E hash \in Uris, ok \in BOOLEAN : searchDatasetResolves(hash, ok)
    \/ \E hash \in Uris, ok \in BOOLEAN : searchApplicationResolves(hash, ok)
    \/ useAsset
    \/ \E address \in Buyers : handleSubmit(address)
    \/ Mined
    \/ CallReturns
    \/ CallReverts

SpecForm == Init /\ [][NextForm]_vars

\* ------------------------------------------------------------------------
\* Properties
\* ------------------------------------------------------------------------

\* A transaction calling op has just finished; receipt.pre is the state it
\* started in.
Finished(op) == pc = "done" /\ receipt.op = op

\* The contract storage and the balances are what they were when the finished
\* transaction began, and the transaction left no event in the log.
NothingChanged ==
    /\ Snapshot = receipt.pre
    /\ ~locked
    /\ receipt.logs = << >>

PaymentFailures ==
    {"Dataset payment failed", "Application payment failed", "Refund failed"}
TypeMismatch == {"datasetId is not dataset", "applicationId is not application"}

\* The arguments of the finished purchaseAccess and the assets they named when
\* it began.
BoughtDataset == receipt.pre.assets[receipt.args.datasetId]
BoughtApplication == receipt.pre.assets[receipt.args.applicationId]
BothExist == BoughtDataset.id # 0 /\ BoughtApplication.id # 0
BothTyped ==
    BoughtDataset.assetType = "Dataset" /\ BoughtApplication.assetType = "Application"

\* C1: access grants are append-only.  Every (user, dataset reference,
\* application reference) for which hasAccess returned true when a transaction
\* began still has access when it has finished, whatever the transaction was
\* (a revocation, a deactivation, a repricing, a purchase that was rolled
\* back); and inside a purchase no grant that existed before it is missing.
C1_GrantsAppendOnly ==
    /\ pc = "done" /\ receipt.op # "none" =>
         \A u \in Accounts, x \in Uris, y \in Uris :
            AccessKey(x, y, u) \in receipt.pre.accessRights => hasAccess(u, x, y)
    /\ InCall =>
         \A u \in Accounts, x \in Uris, y \in Uris :
            AccessKey(x, y, u) \in frame.snap.accessRights => hasAccess(u, x, y)

\* A revocation has just succeeded on a dataset over which a user holds a grant
\* made earlier, and the grant is still reported.
C1_Witness ==
    /\ Finished("revokeAsset")
    /\ receipt.status = "ok"
    /\ assets[receipt.args.assetId].assetType = "Dataset"
    /\ \E u \in Accounts, y \in Uris :
          /\ AccessKey(assets[receipt.args.assetId].encryptedUri, y, u)
                \in receipt.pre.accessRights
          /\ hasAccess(u, assets[receipt.args.assetId].encryptedUri, y)

\* C2: revocation is terminal.  An asset on which revokeAsset has succeeded is
\* inactive in every later state.
C2_RevokedStaysInactive == \A i \in revokedLog : ~assets[i].active

\* C3 as stated: after a successful purchaseAccess the caller's balance is
\* exactly datasetPrice + appPrice lower than before it, and the caller has
\* access to the pair of references.
C3_CallerPaysTotal ==
    Finished("purchaseAccess") /\ receipt.status = "ok" =>
        /\ balance[receipt.sender] =
              receipt.pre.balance[receipt.sender]
                - (BoughtDataset.price + BoughtApplication.price)
        /\ hasAccess(receipt.sender, BoughtDataset.encryptedUri,
                     BoughtApplication.encryptedUri)

\* What the caller of the finished purchase received as owner of the assets.
PaidBackToCaller ==
    (IF BoughtDataset.owner = receipt.sender THEN BoughtDataset.price ELSE 0)
    + (IF BoughtApplication.owner = receipt.sender THEN BoughtApplication.price
       ELSE 0)

\* C3 amended: after a successful purchaseAccess the caller's balance is lower
\* by datasetPrice + appPrice less the price of each of the two assets the
\* caller owns itself (so by exactly the total when the caller owns neither),
\* whatever extra was sent, and the caller has access to the pair of references.
C3_CallerPaysTotalUnlessOwner ==
    Finished("purchaseAccess") /\ receipt.status = "ok" =>
        /\ balance[receipt.sender] =
              receipt.pre.balance[receipt.sender]
                - (BoughtDataset.price + BoughtApplication.price)
                + PaidBackToCaller
        /\ hasAccess(receipt.sender, BoughtDataset.encryptedUri,
                     BoughtApplication.encryptedUri)

\* A purchase with extra payment by a caller who owns neither asset succeeded.
C3_Witness ==
    /\ Finished("purchaseAccess")
    /\ receipt.status = "ok"
    /\ receipt.args.value > BoughtDataset.price + BoughtApplication.price
    /\ BoughtDataset.price > 0
    /\ BoughtApplication.price > 0
    /\ receipt.sender \notin {BoughtDataset.owner, BoughtApplication.owner}

\* C4: a successful purchaseAccess moves exactly the dataset's stored price to
\* the dataset's owner and the application's stored price to the application's
\* owner, and the caller is out of pocket the payment less the change; no other
\* balance changes.
C4_ExactTransfers ==
    Finished("purchaseAccess") /\ receipt.status = "ok" =>
        \A x \in Accounts \cup {Ledger} :
            balance[x] =
                receipt.pre.balance[x]
                - (IF x = receipt.sender THEN receipt.args.value ELSE 0)
                + (IF x = BoughtDataset.owner THEN BoughtDataset.price ELSE 0)
                + (IF x = BoughtApplication.owner THEN BoughtApplication.price
                   ELSE 0)
                + (IF x = receipt.sender
                   THEN receipt.args.value
                          - (BoughtDataset.price + BoughtApplication.price)
                   ELSE 0)

\* The scenario of prices 100 and 50 with payment 200, scaled to 2, 1 and 4:
\* three different accounts, each owner credited its price, 1 refunded.
C4_Witness ==
    /\ Finished("purchaseAccess")
    /\ receipt.status = "ok"
    /\ BoughtDataset.price = 2
    /\ BoughtApplication.price = 1
    /\ receipt.args.value = 4
    /\ Cardinality({receipt.sender, BoughtDataset.owner,
                    BoughtApplication.owner}) = 3
    /\ balance[BoughtDataset.owner] = receipt.pre.balance[BoughtDataset.owner] + 2
    /\ balance[BoughtApplication.owner] =
          receipt.pre.balance[BoughtApplication.owner] + 1
    /\ balance[receipt.sender] = receipt.pre.balance[receipt.sender] - 3

\* C5: purchaseAccess is all-or-nothing.  When one of its value transfers
\* fails, the grant, the event, every payment already made and everything the
\* recipients did in between are undone; a finished purchase has either
\* succeeded (grant recorded, event logged, all of the payment passed on) or
\* changed nothing.
C5_AllOrNothing ==
    Finished("purchaseAccess") =>
        /\ receipt.status \in PaymentFailures => NothingChanged
        /\ \/ /\ receipt.status = "ok"
              /\ hasAccess(receipt.sender, BoughtDataset.encryptedUri,
                           BoughtApplication.encryptedUri)
              /\ receipt.logs # << >>
              /\ balance[Ledger] = receipt.pre.balance[Ledger]
           \/ /\ receipt.status # "ok"
              /\ NothingChanged

\* The application owner's payment failed after the dataset owner had been
\* paid, and the purchase was rolled back.
C5_Witness ==
    /\ Finished("purchaseAccess")
    /\ receipt.status = "Application payment failed"
    /\ BoughtDataset.price > 0

\* C6: while purchaseAccess is inside one of its external calls, no call the
\* recipient makes back into the contract (mutating or reading) succeeds.
C6_NoNestedCallSucceeds == InCall => inner.status # "ok"

\* C7: once revokeAsset has succeeded on an asset, a purchaseAccess naming it
\* (both ids existing and correctly typed) fails with "Inactive asset" and
\* grants nothing.
C7_RevokedCannotBeBought ==
    /\ Finished("purchaseAccess")
    /\ BothExist
    /\ BothTyped
    /\ {receipt.args.datasetId, receipt.args.applicationId}
          \cap receipt.pre.revokedLog # {}
    => /\ receipt.status = "Inactive asset"
       /\ accessRights = receipt.pre.accessRights

\* C8: a purchaseAccess whose ids both exist and whose dataset id names an
\* application, or whose application id names a dataset, fails with the type
\* error, whatever was paid and whether or not the assets are active, and
\* changes nothing.
C8_TypeMismatchRejected ==
    /\ Finished("purchaseAccess")
    /\ BothExist
    /\ ~BothTyped
    => /\ receipt.status \in TypeMismatch
       /\ NothingChanged

\* A mistyped purchase of an inactive asset with a positive payment was
\* rejected for its types.
C8_Witness ==
    /\ Finished("purchaseAccess")
    /\ BothExist
    /\ receipt.status \in TypeMismatch
    /\ ~(BoughtDataset.active /\ BoughtApplication.active)
    /\ receipt.args.value > 0

BothActive == BoughtDataset.active /\ BoughtApplication.active

RECURSIVE Registered(_)
Registered(logs) ==
    IF logs = << >> THEN 0
    ELSE (IF Head(logs)[1] = "AssetRegistered" THEN 1 ELSE 0)
         + Registered(Tail(logs))

\* C10: ids are dense from 1 and never shared; a registerAsset transaction
\* returns the id after the last one assigned and records its caller as owner,
\* active; every transaction moves the counter by exactly the number of
\* registrations it committed (none for a failed one), and leaves every asset
\* already registered under its id.
C10_DenseIds ==
    /\ \A i \in AssetIds :
          IF i \in 1..nextAssetId THEN assets[i].id = i ELSE assets[i] = ZeroAsset
    /\ Finished("registerAsset") =>
          /\ receipt.status = "ok"
          /\ receipt.ret = receipt.pre.nextAssetId + 1
          /\ receipt.ret = nextAssetId
          /\ receipt.pre.assets[receipt.ret] = ZeroAsset
          /\ assets[receipt.ret].id = receipt.ret
          /\ assets[receipt.ret].owner = receipt.sender
          /\ assets[receipt.ret].active
    /\ pc = "done" /\ receipt.op # "none" =>
          /\ nextAssetId = receipt.pre.nextAssetId + Registered(receipt.logs)
          /\ receipt.status # "ok" => nextAssetId = receipt.pre.nextAssetId
          /\ \A i \in 1..receipt.pre.nextAssetId :
                assets[i].id = receipt.pre.assets[i].id

\* The second registration, sent by another account than the first, returned
\* id 2.
C10_Witness ==
    /\ Finished("registerAsset")
    /\ receipt.ret = 2
    /\ assets[1].id = 1
    /\ assets[1].owner # receipt.sender

OwnerOps == {"updateAsset", "revokeAsset"}

\* The price or the active flag of asset i differs between the two states of a
\* step.
Repriced(i) ==
    \/ assets'[i].price # assets[i].price
    \/ assets'[i].active # assets[i].active

\* C11: updateAsset and revokeAsset fail with "Asset does not exist" when the id
\* was never assigned and with "Only owner" when the caller is not the asset's
\* owner, both as a transaction and as a nested call, and then change nothing;
\* hence a step changes the price or the active flag of a registered asset only
\* when it is a successful updateAsset or revokeAsset of the asset's owner (or
\* the rollback of a purchase, which restores what such a call had changed).
C11_OnlyOwnerChanges ==
    [][
        /\ pc' = "done" /\ pc = "idle" /\ receipt'.op \in OwnerOps =>
              LET id == receipt'.args.assetId
              IN  /\ assets[id].id = 0 =>
                        /\ receipt'.status = "Asset does not exist"
                        /\ storage' = storage
                        /\ receipt'.logs = << >>
                  /\ assets[id].id # 0 /\ assets[id].owner # receipt'.sender =>
                        /\ receipt'.status = "Only owner"
                        /\ storage' = storage
                        /\ receipt'.logs = << >>
        /\ InCall /\ InCall' /\ inner' # inner /\ inner'.op \in OwnerOps
              /\ inner'.status # "ok" =>
                  /\ inner'.status \in {"Asset does not exist", "Only owner",
                                        "Already revoked"}
                  /\ storage' = storage
                  /\ frame'.logs = frame.logs
        /\ \A i \in AssetIds :
              assets[i].id # 0 /\ Repriced(i) =>
                  \/ /\ pc' = "done"
                     /\ receipt'.op \in OwnerOps
                     /\ receipt'.status = "ok"
                     /\ receipt'.args.assetId = i
                     /\ receipt'.sender = assets[i].owner
                  \/ /\ InCall'
                     /\ inner'.op \in OwnerOps
                     /\ inner'.status = "ok"
                     /\ inner'.sender = assets[i].owner
                  \/ /\ InCall
                     /\ pc' = "done"
                     /\ receipt'.status \in PaymentFailures
                     /\ assets' = frame.snap.assets
    ]_vars

\* Somebody other than the owner asked to change the price and the active flag
\* of a registered asset and was refused.
C11_Witness ==
    /\ Finished("updateAsset")
    /\ receipt.status = "Only owner"
    /\ assets[receipt.args.assetId].id # 0
    /\ assets[receipt.args.assetId].price # receipt.args.newPrice
    /\ assets[receipt.args.assetId].active # receipt.args.newActive

\* C12: revokeAsset sent by the owner of a registered asset fails with "Already
\* revoked" exactly when a revokeAsset on that asset has succeeded before, and
\* then changes nothing; otherwise it succeeds and takes active from true to
\* false.
C12_AlreadyRevokedIffRevokedBefore ==
    /\ Finished("revokeAsset")
    /\ receipt.pre.assets[receipt.args.assetId].id # 0
    /\ receipt.pre.assets[receipt.args.assetId].owner = receipt.sender
    => LET id == receipt.args.assetId
       IN  /\ receipt.status = "Already revoked" <=> id \in receipt.pre.revokedLog
           /\ receipt.status = "Already revoked" => NothingChanged
           /\ receipt.status # "Already revoked" =>
                 /\ receipt.status = "ok"
                 /\ receipt.pre.assets[id].active
                 /\ ~assets[id].active

\* C13: registerAsset called with an empty encryptedUri or an empty manifestUri
\* fails: it assigns no id, stores no asset and emits no event.
C13_EmptyRefsRejected ==
    /\ Finished("registerAsset")
    /\ \/ receipt.args.encryptedUri = EmptyString
       \/ receipt.args.manifestUri = EmptyString
    => /\ receipt.status # "ok"
       /\ NothingChanged

\* The ids and the caller of the purchaseAccess a step has started (and maybe
\* finished at once), when the step is one.
StartedPurchase ==
    IF InCall' THEN frame'
    ELSE [sender |-> receipt'.sender, datasetId |-> receipt'.args.datasetId,
          applicationId |-> receipt'.args.applicationId]

\* In the state the purchase is called in, d is a registered active dataset and
\* a a registered active application.
Purchasable(d, a) ==
    /\ assets[d].id # 0 /\ assets[d].assetType = "Dataset" /\ assets[d].active
    /\ assets[a].id # 0 /\ assets[a].assetType = "Application" /\ assets[a].active

\* C14: every step that records a grant is a purchaseAccess whose dataset id
\* names, at that moment, a registered asset of type Dataset with active = true
\* and whose application id names a registered asset of type Application with
\* active = true; the key written is the one of their two references and the
\* caller; and no other step adds a key.
C14_GrantsOnlyOverActiveAssets ==
    [][
        /\ pc = "idle"
           /\ \/ InCall'
              \/ pc' = "done" /\ receipt'.op = "purchaseAccess"
                              /\ receipt'.status = "ok"
           => LET p == StartedPurchase
              IN  /\ Purchasable(p.datasetId, p.applicationId)
                  /\ accessRights' = accessRights \cup
                        {AccessKey(assets[p.datasetId].encryptedUri,
                                   assets[p.applicationId].encryptedUri, p.sender)}
        /\ accessRights' \ accessRights # {} =>
              \/ pc = "idle" /\ InCall'
              \/ pc = "idle" /\ pc' = "done" /\ receipt'.op = "purchaseAccess"
                             /\ receipt'.status = "ok"
    ]_vars

\* A purchase over a dataset that its owner had deactivated and activated again
\* recorded a grant that did not exist before.
C14_Witness ==
    /\ Finished("purchaseAccess")
    /\ receipt.status = "ok"
    /\ BothActive
    /\ receipt.args.datasetId \in receipt.pre.revokedLog
    /\ AccessKey(BoughtDataset.encryptedUri, BoughtApplication.encryptedUri,
                 receipt.sender) \notin receipt.pre.accessRights
    /\ hasAccess(receipt.sender, BoughtDataset.encryptedUri,
                 BoughtApplication.encryptedUri)

\* The fields of an asset record that no function assigns after registration.
Identity(a) ==
    [id |-> a.id, assetType |-> a.assetType, owner |-> a.owner,
     encryptedUri |-> a.encryptedUri, manifestUri |-> a.manifestUri,
     contentHash |-> a.contentHash, bloomFilter |-> a.bloomFilter]

\* The step is a call of op: sent as a transaction, or made by the recipient of
\* a payment.
StepCalls(op) ==
    \/ pc = "idle" /\ pc' = "done" /\ receipt'.op = op
    \/ InCall /\ InCall' /\ inner' # inner /\ inner'.op = op

\* The step leaves everything but the listed change of asset i as it was.
OnlyAsset(i, changed) ==
    /\ assets' = [assets EXCEPT ![i] = changed]
    /\ UNCHANGED <<nextAssetId, accessRights, balance>>

\* C15: a registered asset keeps its id, type, owner, encryptedUri, manifestUri
\* and contentHash and is never deleted, whatever transactions follow (the one
\* exception being the rollback of the very transaction that registered it);
\* updateAsset changes only the price and the active flag of the asset it
\* names and revokeAsset only its active flag, and neither changes another
\* asset, a grant, the id counter or a balance.
C15_IdentityFrozen ==
    [][
        /\ \A i \in AssetIds :
              assets[i].id # 0 =>
                  \/ Identity(assets'[i]) = Identity(assets[i])
                  \/ /\ InCall
                     /\ pc' = "done"
                     /\ receipt'.status \in PaymentFailures
                     /\ frame.snap.assets[i].id = 0
                     /\ assets'[i] = ZeroAsset
        /\ StepCalls("updateAsset") =>
              \E i \in AssetIds :
                  OnlyAsset(i, [assets[i] EXCEPT !.price = assets'[i].price,
                                                 !.active = assets'[i].active])
        /\ StepCalls("revokeAsset") =>
              \E i \in AssetIds :
                  OnlyAsset(i, [assets[i] EXCEPT !.active = assets'[i].active])
    ]_vars

\* The owner of one of two registered assets changed its price and its active
\* flag while a grant existed.
C15_Witness ==
    /\ Finished("updateAsset")
    /\ receipt.status = "ok"
    /\ nextAssetId >= 2
    /\ accessRights # {}
    /\ assets[receipt.args.assetId].price
          # receipt.pre.assets[receipt.args.assetId].price
    /\ assets[receipt.args.assetId].active
          # receipt.pre.assets[receipt.args.assetId].active

\* The purchase just finished was sent from the form after the buyer had read
\* two active assets, and an owner's updateAsset came between that read and the
\* purchase: what the purchase found differs from what the buyer saw.
UpdatedSinceRead ==
    /\ Finished("purchaseAccess")
    /\ receipt.args.datasetId = form.datasetId
    /\ receipt.args.applicationId = form.applicationId
    /\ receipt.args.value = totalPrice
    /\ form.datasetAsset.active
    /\ form.applicationAsset.active
    /\ \/ BoughtDataset # form.datasetAsset
       \/ BoughtApplication # form.applicationAsset

StoredTotal == BoughtDataset.price + BoughtApplication.price

\* The finished purchase took exactly the prices stored when it ran from the
\* buyer (less what the buyer received as an owner), the rest of the payment
\* being back with the buyer: never more than was sent, never more than the
\* stored total.
ChargedStoredPrices ==
    /\ receipt.status = "ok"
    /\ balance[receipt.sender] =
          receipt.pre.balance[receipt.sender] - StoredTotal + PaidBackToCaller
    /\ StoredTotal <= receipt.args.value
    /\ receipt.pre.balance[receipt.sender] - balance[receipt.sender]
          <= receipt.args.value

\* C16 as stated: when the buyer reads both prices and sends their sum, and an
\* owner's updateAsset comes between the read and the purchase, the purchase
\* (its payments being accepted) either fails with "Insufficient payment"
\* changing nothing, or charges the prices stored when it runs and refunds the
\* rest.
C16_InsufficientOrStoredPrices ==
    UpdatedSinceRead /\ receipt.status \notin PaymentFailures =>
        \/ receipt.status = "Insufficient payment" /\ NothingChanged
        \/ ChargedStoredPrices

\* C16 amended: in that situation the purchase either fails changing nothing
\* (with "Inactive asset" when the update left an asset inactive, with the
\* arithmetic panic when the stored prices no longer fit a uint256 together,
\* with "Insufficient payment" when their sum exceeds the payment, or because
\* a payment was refused), or charges the prices stored when it runs and
\* refunds the rest; the buyer is never charged more than the payment nor more
\* than the sum of the stored prices.
C16_FailsCleanlyOrStoredPrices ==
    UpdatedSinceRead =>
        \/ /\ receipt.status \in {"Insufficient payment", "Inactive asset",
                                  "Panic(0x11)"} \cup PaymentFailures
           /\ NothingChanged
           /\ receipt.status = "Inactive asset" <=> ~BothActive
           /\ receipt.status = "Panic(0x11)" <=>
                 (BothActive /\ StoredTotal > MaxUint)
           /\ receipt.status = "Insufficient payment" <=>
                 (BothActive /\ StoredTotal <= MaxUint
                    /\ receipt.args.value < StoredTotal)
        \/ ChargedStoredPrices

\* The dataset's owner lowered its price after the buyer had read it; the
\* purchase charged the lower price and returned the difference.
C16_Witness ==
    /\ UpdatedSinceRead
    /\ receipt.status = "ok"
    /\ BoughtDataset.price < form.datasetAsset.price
    /\ BoughtApplication.price > 0
    /\ receipt.sender \notin {BoughtDataset.owner, BoughtApplication.owner}
    /\ balance[receipt.sender] = receipt.pre.balance[receipt.sender] - StoredTotal
    /\ receipt.args.value > StoredTotal

\* The key the finished purchase wrote.
BoughtKey ==
    AccessKey(BoughtDataset.encryptedUri, BoughtApplication.encryptedUri,
              receipt.sender)

\* C17: a purchaseAccess by a user who already holds the grant for the pair,
\* over two assets still active and with a payment that covers their prices,
\* succeeds again (its payments being accepted): the set of grants is what it
\* was, the grant still there, and the caller is charged the full total and
\* each owner paid its price once more.
C17_RepeatPurchaseChargesAgain ==
    /\ Finished("purchaseAccess")
    /\ BothExist /\ BothTyped /\ BothActive
    /\ BoughtKey \in receipt.pre.accessRights
    /\ StoredTotal <= MaxUint
    /\ receipt.args.value >= StoredTotal
    /\ receipt.status \notin PaymentFailures
    => /\ receipt.status = "ok"
       /\ accessRights = receipt.pre.accessRights
       /\ hasAccess(receipt.sender, BoughtDataset.encryptedUri,
                    BoughtApplication.encryptedUri)
       /\ Len(receipt.logs) >= 1
       /\ \A x \in Accounts \cup {Ledger} :
             balance[x] =
                 receipt.pre.balance[x]
                 - (IF x = receipt.sender THEN StoredTotal ELSE 0)
                 + (IF x = BoughtDataset.owner THEN BoughtDataset.price ELSE 0)
                 + (IF x = BoughtApplication.owner THEN BoughtApplication.price
                    ELSE 0)

\* The same buyer bought the same pair of priced assets a second time and paid
\* both owners again.
C17_Witness ==
    /\ Finished("purchaseAccess")
    /\ receipt.status = "ok"
    /\ BoughtKey \in receipt.pre.accessRights
    /\ BoughtDataset.price > 0
    /\ BoughtApplication.price > 0
    /\ receipt.sender \notin {BoughtDataset.owner, BoughtApplication.owner}
    /\ balance[receipt.sender] = receipt.pre.balance[receipt.sender] - StoredTotal
    /\ receipt.pre.balance[receipt.sender] < InitBalance
    /\ balance[BoughtDataset.owner] > receipt.pre.balance[BoughtDataset.owner]
    /\ balance[BoughtApplication.owner]
          > receipt.pre.balance[BoughtApplication.owner]

\* C20: a requestExecution call sends exactly one request to the executor, with
\* no retry; whatever comes back (a success, a non-OK response, a network
\* failure, a body that is not JSON) it returns a result, which carries a
\* timestamp and an elapsed time; and the result's success is true only when
\* the response was OK and the executor's own answer said success.
C20_OneRequestOneResult ==
    /\ call.pc \in {"none", "fetch", "returned"}
    /\ call.pc # "none" => call.fetches = 1
    /\ call.pc = "returned" =>
          /\ call.result.timestamp # "undefined"
          /\ call.result.executionTime # "undefined"
          /\ call.result.success = "true" =>
                /\ call.response.ok
                /\ call.response.body.json = "object"
                /\ call.response.body.success = "true"
          /\ ~call.response.ok \/ call.response.body.json # "object" =>
                call.result.success = "false"

\* A non-OK answer whose body nevertheless said success came back some time
\* after the request: the result is a failure with the elapsed time.
C20_Witness ==
    /\ call.pc = "returned"
    /\ ~call.response.ok
    /\ call.response.body.success = "true"
    /\ call.result.success = "false"
    /\ call.result.executionTime = ToJson(1)
    /\ call.fetches = 1

\* The grant for the request of run r is recorded in the ledger.
HoldsGrant(r) ==
    AccessKey(assets[runs[r].datasetId].encryptedUri,
              assets[runs[r].applicationId].encryptedUri, runs[r].requester)
        \in accessRights

StoredBeforeWrite(tx) ==
    LET ipfsHash == RemoveIpfsPrefix(tx.encryptedUri)
        assetTypeName == IF tx.assetType = "Dataset" THEN "dataset"
                         ELSE "application"
    IN  /\ ipfsHash \in ipfs
        /\ RemoveIpfsPrefix(tx.manifestUri) \in ipfs
        /\ generateSessionName(assetTypeName, ipfsHash) \in cas

\* C21: whenever the registration flow hands a registerAsset transaction to
\* the wallet, and whenever that transaction has written the asset to the
\* ledger, the encrypted bytes and the manifest are in the AssetStore and the
\* asset's key is held by the CAS; the write is handed over only by a handler
\* that has run to its end; and no key is kept outside the CAS (localStorage
\* holds none).
C21_StoredAndCustodiedBeforeLedgerWrite ==
    /\ localStorage = {}
    /\ reg.tx # << >> => reg.pc = "idle" /\ StoredBeforeWrite(reg.tx[1])
    /\ Finished("registerAsset") => StoredBeforeWrite(receipt.args)

\* C30: whenever no run of the registration handler is in progress,
\* isUploading is false and the progress message is empty, so that the
\* Register button is not disabled by a run that has ended.
C30_UploadEndsCleared ==
    reg.pc = "idle" => ~reg.isUploading /\ reg.uploadProgress = ""

\* The positions of the AccessPurchased events among those a transaction left.
PurchaseEvents(logs) == {i \in 1..Len(logs) : logs[i][1] = "AccessPurchased"}

\* C22: the notification log and the grant state agree.  A successful
\* purchaseAccess leaves exactly one AccessPurchased event, naming the two ids
\* and the caller and carrying the two amounts that moved to the owners; a
\* failed one leaves none; and in every state, for every AccessPurchased(d, a,
\* u) in the chain's log, hasAccessByIds(u, d, a) is true.
C22_LogAgreesWithGrants ==
    /\ Finished("purchaseAccess") /\ receipt.status = "ok" =>
         /\ \E i \in PurchaseEvents(receipt.logs) :
               /\ PurchaseEvents(receipt.logs) = {i}
               /\ receipt.logs[i] =
                     <<"AccessPurchased", receipt.args.datasetId,
                       receipt.args.applicationId, receipt.sender,
                       BoughtDataset.price, BoughtApplication.price>>
               /\ \A x \in Accounts \cup {Ledger} :
                     balance[x] =
                         receipt.pre.balance[x]
                         - (IF x = receipt.sender
                            THEN receipt.logs[i][5] + receipt.logs[i][6] ELSE 0)
                         + (IF x = BoughtDataset.owner THEN receipt.logs[i][5] ELSE 0)
                         + (IF x = BoughtApplication.owner THEN receipt.logs[i][6]
                            ELSE 0)
         /\ purchasedLog =
               receipt.pre.purchasedLog
                 \cup {<<receipt.args.datasetId, receipt.args.applicationId,
                         receipt.sender>>}
    /\ Finished("purchaseAccess") /\ receipt.status # "ok" =>
         /\ PurchaseEvents(receipt.logs) = {}
         /\ purchasedLog = receipt.pre.purchasedLog
    /\ pc = "done" /\ receipt.op \notin {"none", "purchaseAccess"} =>
         purchasedLog = receipt.pre.purchasedLog
    /\ \A e \in purchasedLog : hasAccessByIds(e[3], e[1], e[2]) = TRUE

\* The dataset of a logged purchase has just been revoked by its owner, and
\* the buyer of the log entry is still reported to have access.
C22_Witness ==
    /\ Finished("revokeAsset")
    /\ receipt.status = "ok"
    /\ \E e \in purchasedLog :
          /\ e[1] = receipt.args.assetId
          /\ hasAccessByIds(e[3], e[1], e[2]) = TRUE

\* C23: nobody gets access to an asset without paying its owner.  Whenever
\* hasAccessByIds(u, d, a) is true for a registered dataset d and application a, the
\* chain's log holds AccessPurchased(d, a, u): u made a successful purchase
\* naming exactly d and a (in which, by C4 and C22, both owners were paid);
\* buying another asset that has d's encryptedUri gives no access to d.
C23_AccessOnlyByPayingOwners ==
    \A u \in Accounts, d \in AssetIds \ {0}, a \in AssetIds \ {0} :
        /\ assets[d].id # 0
        /\ assets[a].id # 0
        /\ assets[d].assetType = "Dataset"
        /\ assets[a].assetType = "Application"
        /\ hasAccessByIds(u, d, a) = TRUE
        => <<d, a, u>> \in purchasedLog

\* C24: the grant key keeps its three components apart.  Whenever
\* hasAccess(u, x, y) is true, the chain's log holds a purchase by u over a
\* dataset whose encryptedUri is exactly x and an application whose
\* encryptedUri is exactly y; a purchase over other references with the same
\* concatenation does not make it true.
C24_KeyKeepsComponentsApart ==
    \A u \in Accounts, x \in Uris, y \in Uris :
        hasAccess(u, x, y) =>
            \E e \in purchasedLog :
                /\ e[3] = u
                /\ assets[e[1]].encryptedUri = x
                /\ assets[e[2]].encryptedUri = y

\* The ether of all accounts and of the contract together.
RECURSIVE SumOver(_, _)
SumOver(bal, holders) ==
    IF holders = {} THEN 0
    ELSE LET x == CHOOSE h \in holders : TRUE
         IN  bal[x] + SumOver(bal, holders \ {x})
TotalEther(bal) == SumOver(bal, Accounts \cup {Ledger})

\* What the finished purchase makes of the balance of x by itself: the payment
\* taken from the caller, the prices handed to the owners, the change refunded.
AfterPayments(x) ==
    receipt.pre.balance[x]
    - (IF x = receipt.sender THEN receipt.args.value ELSE 0)
    + (IF x = BoughtDataset.owner THEN BoughtDataset.price ELSE 0)
    + (IF x = BoughtApplication.owner THEN BoughtApplication.price ELSE 0)
    + (IF x = receipt.sender
       THEN receipt.args.value - (BoughtDataset.price + BoughtApplication.price)
       ELSE 0)

\* What x, while it was being paid, sent on to the contract's receive().
SentToContract(x) == AfterPayments(x) - balance[x]

\* Those the finished purchase made a call to.
WasPaid(x) ==
    \/ x = BoughtDataset.owner /\ BoughtDataset.price > 0
    \/ x = BoughtApplication.owner /\ BoughtApplication.price > 0
    \/ x = receipt.sender
       /\ receipt.args.value > BoughtDataset.price + BoughtApplication.price

\* C25: purchaseAccess keeps nothing and spends nothing of the contract's
\* funds.  After a successful purchase the contract's balance is what it was
\* before plus exactly the ether that reached its receive() during the
\* transaction (unchanged when none did), every account has what the payments
\* make of it less what it sent there while being paid; after a failed
\* purchase every balance is what it was; and the sum of all balances is the
\* same in every state of a purchase and after it.
C25_ContractKeepsNothing ==
    /\ Finished("purchaseAccess") /\ receipt.status = "ok" =>
         /\ \A x \in Accounts :
               /\ SentToContract(x) >= 0
               /\ SentToContract(x) > 0 => WasPaid(x)
         /\ SumOver([x \in Accounts |-> SentToContract(x)], Accounts)
               = receipt.received
         /\ balance[Ledger] = receipt.pre.balance[Ledger] + receipt.received
    /\ Finished("purchaseAccess") /\ receipt.status # "ok" =>
         balance = receipt.pre.balance
    /\ Finished("purchaseAccess") =>
         TotalEther(balance) = TotalEther(receipt.pre.balance)
    /\ InCall => TotalEther(balance) = TotalEther(frame.snap.balance)

\* The contract held ether before a successful purchase that paid two prices
\* and refunded change, nobody sent it more meanwhile, and it holds the same
\* after.
C25_Witness ==
    /\ Finished("purchaseAccess")
    /\ receipt.status = "ok"
    /\ receipt.pre.balance[Ledger] > 0
    /\ BoughtDataset.price > 0
    /\ BoughtApplication.price > 0
    /\ receipt.args.value > BoughtDataset.price + BoughtApplication.price
    /\ receipt.received = 0
    /\ balance[Ledger] = receipt.pre.balance[Ledger]

\* C26: the total is never reduced modulo 2^256.  A purchaseAccess over two
\* existing assets whose prices add up to more than the largest uint256 fails
\* and changes nothing, and every purchaseAccess that succeeds was sent at
\* least the true sum of the two prices.
C26_TotalNeverWraps ==
    /\ Finished("purchaseAccess") /\ BothExist
       /\ BoughtDataset.price + BoughtApplication.price > MaxUint =>
            /\ receipt.status # "ok"
            /\ NothingChanged
    /\ Finished("purchaseAccess") /\ receipt.status = "ok" =>
            receipt.args.value >= BoughtDataset.price + BoughtApplication.price

\* A purchase of an active dataset and application whose prices overflow was
\* sent at least the wrapped-around total, and it failed with the arithmetic
\* panic.
C26_Witness ==
    /\ Finished("purchaseAccess")
    /\ BothExist
    /\ BothTyped
    /\ BoughtDataset.active
    /\ BoughtApplication.active
    /\ BoughtDataset.price + BoughtApplication.price > MaxUint
    /\ receipt.args.value
          >= (BoughtDataset.price + BoughtApplication.price) % (MaxUint + 1)
    /\ receipt.status = "Panic(0x11)"
    /\ NothingChanged

\* C27: the reentrancy flag is false whenever no purchaseAccess is inside an
\* external call (between transactions, after a successful purchase, after a
\* failed or rolled-back one) and true while one is; a purchaseAccess entered
\* by a payment recipient while the flag is set fails with the reentrant-call
\* error; and a purchase whose payment call failed, as it does when the
\* recipient passes that error on, has changed nothing.
C27_LockReleasedAndRespected ==
    /\ ~InCall => ~locked
    /\ InCall => locked
    /\ InCall /\ inner.op = "purchaseAccess" =>
          /\ inner.status = "ReentrancyGuard: reentrant call"
          /\ accessRights = frame.snap.accessRights
                \cup {AccessKey(assets[frame.datasetId].encryptedUri,
                                assets[frame.applicationId].encryptedUri,
                                frame.sender)}
    /\ Finished("purchaseAccess") /\ receipt.status \in PaymentFailures =>
          NothingChanged

\* The owner being paid has called purchaseAccess for a pair that is for sale
\* at the value it sent, and was refused by the guard.
C27_Witness ==
    /\ InCall
    /\ locked
    /\ inner.op = "purchaseAccess"
    /\ inner.status = "ReentrancyGuard: reentrant call"
    /\ \E d \in ListedIds \ {0}, a \in ListedIds \ {0} :
          /\ assets[d].assetType = "Dataset" /\ assets[d].active
          /\ assets[a].assetType = "Application" /\ assets[a].active
          /\ assets[d].price + assets[a].price = 0

\* The ids registerAsset has handed out.
Assigned(next) == 1..next

\* C28: in every state the record stored at index i has id = i for every i
\* from 1 to nextAssetId and every other index (0 included) holds the zero
\* record; so getAsset, updateAsset and revokeAsset find an asset exactly for
\* the ids from 1 to nextAssetId and fail with "Asset does not exist" for
\* every other id.
C28_RecordsAtTheirIds ==
    /\ \A i \in AssetIds :
          /\ i \in Assigned(nextAssetId) =>
                /\ assets[i].id = i
                /\ getAsset(i).id = i
          /\ i \notin Assigned(nextAssetId) =>
                /\ assets[i] = ZeroAsset
                /\ getAsset(i) = "revert"
          /\ \A sender \in Accounts :
                /\ updateAssetError(sender, i) = "Asset does not exist"
                      <=> i \notin Assigned(nextAssetId)
                /\ revokeAssetError(sender, i) = "Asset does not exist"
                      <=> i \notin Assigned(nextAssetId)
    /\ Finished("updateAsset") \/ Finished("revokeAsset") =>
          (receipt.status = "Asset does not exist"
             <=> receipt.args.assetId \notin Assigned(receipt.pre.nextAssetId))

\* With an asset registered, revokeAsset was sent for the id after the last
\* one and did not find it.
C28_Witness ==
    /\ Finished("revokeAsset")
    /\ nextAssetId > 0
    /\ receipt.args.assetId = nextAssetId + 1
    /\ receipt.status = "Asset does not exist"
    /\ assets[receipt.args.assetId] = ZeroAsset

\* No timer is armed and no lookup is in flight: every search the user's
\* typing has caused has finished.
SearchesFinished ==
    /\ ~search.datasetTimer
    /\ ~search.applicationTimer
    /\ search.datasetLookups = {}
    /\ search.applicationLookups = {}

\* C29: the ids a submission of the purchase form passes to purchaseAccess
\* (form.datasetId and form.applicationId) are those of assets whose
\* encryptedUri is the hash now in the field: once every search has finished,
\* no id left by the search for an earlier value of a field is in the form.
C29_IdsBelongToCurrentHashes ==
    SearchesFinished =>
        /\ form.datasetId # 0 =>
              assets[form.datasetId].encryptedUri = search.datasetHash
        /\ form.applicationId # 0 =>
              assets[form.applicationId].encryptedUri = search.applicationHash

====
